---- MODULE Spec2Model ----
(***************************************************************************)
(* A model of the Slack order bot: the event deduplicator and the message  *)
(* listeners of slack-handler.js, and the parsing pipeline of ai-parser.js *)
(* (normalizeProduct, fastParse, aiParse, parseMessage).                   *)
(*                                                                         *)
(* Strings are sequences of characters.  A character is a one-letter TLA+  *)
(* string; a Hangul syllable is written by its romanization, so "큰거" is    *)
(* <<"keun", "geo">> and "녹색" is <<"nok", "saek">>.                        *)
(***************************************************************************)
EXTENDS Integers, Sequences, FiniteSets, Bags, TLC

VARIABLES
    \* ---- ai-parser.js: one call of parseMessage / normalizeProduct ----
    tokens,          \* history: the tokens the message was written with
    text,            \* the argument of the call
    pc,              \* where the call stands
    calls,           \* history: the functions and services invoked, in order
    quickResult,     \* parseMessage's local quickResult
    credential,      \* what aiParse found as config.GEMINI_API_KEY
    outcome,         \* what the call returned or threw
    \* ---- slack-handler.js: the closure state of initSlackApp ----
    processedEvents, \* the Set processedEvents, in insertion order
    lastSkip,        \* history: the latest call of shouldSkipEvent
    lastAction,      \* history: the latest approve_order dedup step
    tasks,           \* the listener invocations in flight (a bag)
    passes,          \* history: per identity, how often it was delivered and
                     \* how many listener runs passed the gate
    prompts,         \* the confirmation prompts posted
    syncCalls,       \* history: the calls handed to google-sheets.js
    \* ---- google-sheets.js and the spreadsheet it talks to ----
    store,           \* the spreadsheet: its sheets, in tab order, and their rows
    call,            \* the google-sheets.js call a caller is awaiting
    done,            \* history: the calls made, with the store before and after
    clicks           \* history: how many button clicks were delivered

parseVars == <<tokens, text, pc, calls, quickResult, credential, outcome>>
slackVars == <<processedEvents, lastSkip, lastAction, tasks, passes,
               prompts, syncCalls>>
sheetVars == <<store, call, done, clicks>>
vars == <<parseVars, slackVars, sheetVars>>

-----------------------------------------------------------------------------
(* JavaScript strings *)

\* What String.prototype.trim and the regular expression \s treat as blank.
Whitespace == {" ", "\t"}

RECURSIVE TrimStart(_)
TrimStart(s) ==
    IF s # <<>> /\ Head(s) \in Whitespace THEN TrimStart(Tail(s)) ELSE s

RECURSIVE TrimEnd(_)
TrimEnd(s) ==
    IF s # <<>> /\ s[Len(s)] \in Whitespace
    THEN TrimEnd(SubSeq(s, 1, Len(s) - 1))
    ELSE s

\* String.prototype.trim
Trim(s) == TrimEnd(TrimStart(s))

\* String.prototype.includes
Includes(s, sub) ==
    \E i \in 1..(Len(s) - Len(sub) + 1) : SubSeq(s, i, i + Len(sub) - 1) = sub

\* s.split(/\s+/): the pieces between the maximal runs of blanks; the empty
\* string splits into one empty piece.
RECURSIVE SplitFrom(_, _, _)
SplitFrom(s, cur, acc) ==
    IF s = <<>> THEN Append(acc, cur)
    ELSE IF Head(s) \in Whitespace
         THEN SplitFrom(TrimStart(s), <<>>, Append(acc, cur))
         ELSE SplitFrom(Tail(s), Append(cur, Head(s)), acc)

SplitWs(s) == SplitFrom(s, <<>>, <<>>)

Digits == <<"0", "1", "2", "3", "4", "5", "6", "7", "8", "9">>

IsDigit(c) == \E i \in 1..Len(Digits) : Digits[i] = c

DigitValue(c) == (CHOOSE i \in 1..Len(Digits) : Digits[i] = c) - 1

RECURSIVE DigitPrefix(_)
DigitPrefix(s) ==
    IF s # <<>> /\ IsDigit(Head(s)) THEN <<Head(s)>> \o DigitPrefix(Tail(s)) ELSE <<>>

RECURSIVE DecimalValue(_)
DecimalValue(ds) ==
    IF ds = <<>> THEN 0
    ELSE 10 * DecimalValue(SubSeq(ds, 1, Len(ds) - 1)) + DigitValue(ds[Len(ds)])

\* The result of parseInt: <<>> is NaN, <<n>> is the number n.
NaN == <<>>

\* The values null and undefined, kept apart from every string: a string is made
\* of one-letter characters.
Null == <<"null">>
Undefined == <<"undefined">>

\* The falsy values a string variable can hold.
Falsy(v) == v \in {<<>>, Null, Undefined}

\* String(v), the conversion parseInt applies to its argument.
String(v) ==
    IF v = Undefined THEN <<"u", "n", "d", "e", "f", "i", "n", "e", "d">>
    ELSE IF v = Null THEN <<"n", "u", "l", "l">>
    ELSE v

\* parseInt(s) with no radix: leading blanks are skipped, a sign is read, then
\* the longest run of decimal digits; whatever follows the digits is ignored,
\* and no digit at all gives NaN.  (No token of the model starts with "0x", the
\* one case where parseInt reads hexadecimal, and none is long enough to leave
\* the exact range of a double.)
ParseInt(s) ==
    LET t      == TrimStart(String(s))
        signed == t # <<>> /\ Head(t) \in {"+", "-"}
        body   == IF signed THEN Tail(t) ELSE t
        ds     == DigitPrefix(body)
    IN  IF ds = <<>> THEN NaN
        ELSE IF signed /\ Head(t) = "-" THEN <<0 - DecimalValue(ds)>>
        ELSE <<DecimalValue(ds)>>

isNaN(n) == n = NaN

-----------------------------------------------------------------------------
(* ai-parser.js: normalizeProduct *)

keunGeo  == <<"keun", "geo">>     \* 큰거
nokSaek  == <<"nok", "saek">>     \* 녹색
paRang   == <<"pa", "rang">>      \* 파랑

\* The object `mapping`, in the order Object.entries walks it.
mapping ==
    << [key |-> keunGeo,
        variants |-> { <<"geun", "geo">>,          \* 근거
                       <<"keun", "geo">>,          \* 큰거
                       <<"keun", "geot">>,         \* 큰것
                       <<"keu", "geo">>,           \* 크거
                       <<"keum", "geo">>,          \* 큼거
                       <<"keun">>,                 \* 큰
                       <<"dae">> }],               \* 대
       [key |-> nokSaek,
        variants |-> { <<"nok", "saek">>,          \* 녹색
                       <<"nok", "sek">>,           \* 녹섹
                       <<"no", "saek">>,           \* 노색
                       <<"nuk", "saek">>,          \* 눅색
                       <<"nok", "saek", "saek">>,  \* 녹색색
                       <<"cho", "rok">>,           \* 초록
                       <<"cho", "rok", "saek">>,   \* 초록색
                       <<"geu", "rin">> }],        \* 그린
       [key |-> paRang,
        variants |-> { <<"pa", "rang">>,           \* 파랑
                       <<"pa", "rang", "saek">>,   \* 파랑색
                       <<"pa", "ran">>,            \* 파란
                       <<"pa", "ra">>,             \* 파라
                       <<"peo", "reong">>,         \* 퍼렁
                       <<"pa", "rang", "i">>,      \* 파랑이
                       <<"beul", "ru">> }] >>      \* 블루

\* The loop of normalizeProduct from entry i on: the first entry whose variants
\* hold the trimmed token, or whose key the trimmed token contains, gives its
\* key; with no such entry the token comes back as it was passed (untrimmed).
RECURSIVE normalizeFrom(_, _, _)
normalizeFrom(m, i, product) ==
    IF i > Len(m) THEN product
    ELSE IF Trim(product) \in m[i].variants \/ Includes(Trim(product), m[i].key)
         THEN m[i].key
         ELSE normalizeFrom(m, i + 1, product)

\* A mapping as a slip would leave it: the list of 큰거 also holds 녹색.
mappingCrossed ==
    [mapping EXCEPT ![1].variants = @ \cup {nokSaek}]

normalizeProductCrossed(product) ==
    IF Falsy(product) THEN product ELSE normalizeFrom(mappingCrossed, 1, product)

\* normalizeProduct: a falsy argument comes back at once.
normalizeProduct(product) ==
    IF Falsy(product) THEN product ELSE normalizeFrom(mapping, 1, product)

-----------------------------------------------------------------------------
(* ai-parser.js: fastParse *)

\* What fastParse returns: null (NO_MATCH), or the array of order lines.
NO_MATCH == [matched |-> FALSE, lines |-> <<>>]

\* results.push({ company, product, count, ts: null }) without the typo
\* correction, as a slip would leave it.
OrderLineRaw(company, product, count) ==
    [company |-> company, product |-> product, count |-> count, ts |-> Null]

\* product = normalizeProduct(product); results.push({ company, product, count, ts: null })
OrderLine(company, product, count) ==
    [company |-> company, product |-> normalizeProduct(product), count |-> count,
     ts |-> Null]

\* The for loop of fastParse, from index i (1-based) on, with `results` so far.
RECURSIVE fastParseLoop(_, _, _)
fastParseLoop(parts, i, results) ==
    IF i > Len(parts)
    THEN (IF Len(results) > 0 THEN [matched |-> TRUE, lines |-> results] ELSE NO_MATCH)
    ELSE LET product  == parts[i]
             countStr == IF i + 1 <= Len(parts) THEN parts[i + 1] ELSE Undefined
             count    == ParseInt(countStr)
         IN  IF ~Falsy(product) /\ ~isNaN(count)
             THEN fastParseLoop(parts, i + 2,
                                Append(results, OrderLine(parts[1], product, count[1])))
             ELSE NO_MATCH

fastParse(t) ==
    LET parts == SplitWs(Trim(t))
    IN  IF Len(parts) < 3 THEN NO_MATCH ELSE fastParseLoop(parts, 2, <<>>)

-----------------------------------------------------------------------------
(* ai-parser.js: aiParse *)

\* A product value of the decoded JSON that is no string (a number).
NumericProduct == <<"number">>

\* What `await model.generateContent(prompt)` and the decoding that follows can
\* come to: the call rejects, the stripped text is no JSON, the JSON is no
\* array, or it is an array of items.
AiItem(company, product, count) ==
    [company |-> company, product |-> product, count |-> count]

AiResponses ==
    { [kind |-> "rejected", items |-> <<>>],
      [kind |-> "notJson",  items |-> <<>>],
      [kind |-> "notArray", items |-> <<>>],
      [kind |-> "array",    items |-> <<>>],
      [kind |-> "array",    items |-> <<AiItem(<<"A">>, <<"geu", "rin">>, 2)>>],
      [kind |-> "array",    items |-> <<AiItem(<<"A">>, <<"x">>, 1),
                                        AiItem(<<"A">>, <<" ", "pa", "ran">>, 4)>>],
      [kind |-> "array",    items |-> <<AiItem(<<"A">>, Undefined, 1)>>],
      [kind |-> "array",    items |-> <<AiItem(<<"A">>, NumericProduct, 1)>>] }

\* The try block of aiParse: every throw inside it (a rejected call, JSON.parse,
\* parsed.map on a non-array, product.trim on a non-string) ends in `return []`.
aiDecode(resp) ==
    IF resp.kind # "array" THEN <<>>
    ELSE IF \E i \in 1..Len(resp.items) : resp.items[i].product = NumericProduct
         THEN <<>>
         ELSE [i \in 1..Len(resp.items) |->
                 [resp.items[i] EXCEPT !.product = normalizeProduct(@)]]

\* aiParse as it would be with the credential check inside the try block.
aiParseThrowsNever(key) == FALSE

\* `if (!config.GEMINI_API_KEY) throw new Error(...)`, before the try block.
aiParseThrows(key) == ~key

-----------------------------------------------------------------------------
(* The inputs of the parsing pipeline *)

MaxTokenLen == 3
MaxTokens == 5

\* The characters tokens are drawn from for normalizeProduct.
TokenAlphabet == {"keun", "geo", "nok", "saek", "pa", "rang", " ", "x"}

RECURSIVE StringsUpTo(_)
StringsUpTo(n) ==
    IF n = 0 THEN {<<>>}
    ELSE LET shorter == StringsUpTo(n - 1)
         IN  shorter \cup { Append(s, c) : s \in shorter, c \in TokenAlphabet }

AllVariants == UNION { mapping[i].variants : i \in 1..Len(mapping) }

NormalizeInputs == StringsUpTo(MaxTokenLen) \cup AllVariants \cup {Null, Undefined}

\* The tokens messages are made of: 일억원, 근거, 10, -5, 3개.
ilEokWon == <<"il", "eok", "won">>
geunGeo == <<"geun", "geo">>
TokenPool == { ilEokWon, geunGeo, <<"1", "0">>, <<"-", "5">>, <<"3", "gae">> }

\* How a message separates and pads its tokens.
WsStyles ==
    { [sep |-> <<" ">>,      lead |-> <<>>,    trail |-> <<>>],
      [sep |-> <<" ", " ">>, lead |-> <<" ">>, trail |-> <<" ">>],
      [sep |-> <<"\t">>,     lead |-> <<>>,    trail |-> <<" ", "\t">>] }

RECURSIVE JoinFrom(_, _, _)
JoinFrom(toks, i, sep) ==
    IF i > Len(toks) THEN <<>>
    ELSE IF i = Len(toks) THEN toks[i]
    ELSE toks[i] \o sep \o JoinFrom(toks, i + 1, sep)

MessageText(toks, style) == style.lead \o JoinFrom(toks, 1, style.sep) \o style.trail

-----------------------------------------------------------------------------
(* ai-parser.js: parseMessage, one call *)

NoOutcome == [kind |-> "pending", lines |-> <<>>, once |-> <<>>, twice |-> <<>>,
              response |-> [kind |-> "none", items |-> <<>>]]

ParseIdle ==
    /\ tokens = <<>>
    /\ text = <<>>
    /\ pc = "idle"
    /\ calls = <<>>
    /\ quickResult = NO_MATCH
    /\ credential = "unread"
    /\ outcome = NoOutcome

\* `if (quickResult) return quickResult;` as a slip would leave it: the fast
\* result is never used.
ReturnsQuickResultNever(q) == FALSE

\* `if (quickResult)`: null is falsy, an array is truthy.
ReturnsQuickResult(q) == q.matched

\* const quickResult = fastParse(text); if (quickResult) return quickResult;
ParseMessageFast ==
    /\ pc = "parseMessage"
    /\ quickResult' = fastParse(text)
    /\ calls' = Append(calls, "fastParse")
    /\ IF ReturnsQuickResult(quickResult')
       THEN /\ outcome' = [outcome EXCEPT !.kind = "returned", !.lines = quickResult'.lines]
            /\ pc' = "returned"
       ELSE /\ outcome' = outcome
            /\ pc' = "aiParse"
    /\ UNCHANGED <<tokens, text, credential, slackVars, sheetVars>>

\* return await aiParse(text): the credential check, ahead of the try block.
AiParseEnter ==
    /\ pc = "aiParse"
    /\ \E key \in BOOLEAN :
         /\ credential' = IF key THEN "present" ELSE "missing"
         /\ IF aiParseThrows(key)
            THEN /\ outcome' = [outcome EXCEPT !.kind = "thrown"]
                 /\ pc' = "thrown"
            ELSE /\ outcome' = outcome
                 /\ pc' = "generateContent"
    /\ calls' = Append(calls, "aiParse")
    /\ UNCHANGED <<tokens, text, quickResult, slackVars, sheetVars>>

\* The try block of aiParse: the extraction service is called and answers.
AiGenerateContent ==
    /\ pc = "generateContent"
    /\ \E resp \in AiResponses :
         outcome' = [outcome EXCEPT !.kind = "returned", !.lines = aiDecode(resp),
                                    !.response = resp]
    /\ calls' = Append(calls, "generateContent")
    /\ pc' = "returned"
    /\ UNCHANGED <<tokens, text, quickResult, credential, slackVars, sheetVars>>

\* normalizeProduct applied to a token, and to its own result.
Normalize ==
    /\ pc = "normalizeProduct"
    /\ outcome' = [outcome EXCEPT !.kind = "returned",
                                  !.once = normalizeProduct(text),
                                  !.twice = normalizeProduct(normalizeProduct(text))]
    /\ calls' = Append(calls, "normalizeProduct")
    /\ pc' = "returned"
    /\ UNCHANGED <<tokens, text, quickResult, credential, slackVars, sheetVars>>

-----------------------------------------------------------------------------
(* google-sheets.js: the spreadsheet *)

\* A cell as values.get hands it over with UNFORMATTED_VALUE: a string or a
\* number.
Str(s) == [string |-> s]
Num(n) == [number |-> n]

IsNumber(cell) == "number" \in DOMAIN cell

RECURSIVE NaturalString(_)
NaturalString(n) ==
    IF n < 10 THEN <<Digits[n + 1]>>
    ELSE Append(NaturalString(n \div 10), Digits[(n % 10) + 1])

\* String(cell)
CellString(cell) ==
    IF IsNumber(cell)
    THEN (IF cell.number < 0 THEN <<"-">> \o NaturalString(0 - cell.number)
          ELSE NaturalString(cell.number))
    ELSE cell.string

\* The truthiness of a cell: 0 and "" are falsy.
Truthy(cell) == IF IsNumber(cell) THEN cell.number # 0 ELSE cell.string # <<>>

\* ['업체명', '제품명', '갯수', 'Slack_TS', '날짜', '비고']
Header ==
    << Str(<<"eop", "che", "myeong">>), Str(<<"je", "pum", "myeong">>),
       Str(<<"gaet", "su">>), Str(<<"S", "l", "a", "c", "k", "_", "T", "S">>),
       Str(<<"nal", "jja">>), Str(<<"bi", "go">>) >>

\* The index of the sheet with this title (its sheetId in the model), 0 if none.
SheetIndex(st, title) ==
    IF \E k \in 1..Len(st) : st[k].title = title
    THEN CHOOSE k \in 1..Len(st) : st[k].title = title
    ELSE 0

\* spreadsheet.data.sheets.some(s => s.properties.title === sheetName)
SheetExists(st, sheetName) == SheetIndex(st, sheetName) # 0

\* values.append on `${title}!A:A`: the row goes below the rows of the sheet.
AppendRow(st, title, row) ==
    [st EXCEPT ![SheetIndex(st, title)].rows = Append(@, row)]

\* batchUpdate addSheet
AddSheet(st, title) == Append(st, [title |-> title, rows |-> <<>>])

\* values.update on `${title}!A1`: the header takes the place of row 1.
WriteHeader(st, title) ==
    [st EXCEPT ![SheetIndex(st, title)].rows =
        IF @ = <<>> THEN <<Header>> ELSE [@ EXCEPT ![1] = Header]]

\* batchUpdate deleteDimension ROWS [i, i + 1) of the sheet with this sheetId:
\* the rows below move up; past the last row it removes an empty row.
DeleteRow(st, sheetId, i) ==
    [st EXCEPT ![sheetId].rows =
        IF i + 1 <= Len(@)
        THEN SubSeq(@, 1, i) \o SubSeq(@, i + 2, Len(@))
        ELSE @]

-----------------------------------------------------------------------------
(* google-sheets.js: appendData, updateData, deleteData *)

\* String(cell) with the marker left in.
StripQuotesLeftOut(s) == s

\* String(cell).replace(/'/g, "")
StripQuotes(s) == SelectSeq(s, LAMBDA c : c # "'")

\* const targetTs = String(ts).trim()
TargetTs(ts) == Trim(String(ts))

\* cell => String(cell).replace(/'/g, "").trim() === targetTs
CellMatches(cell, targetTs) == Trim(StripQuotes(CellString(cell))) = targetTs

\* currentRow.findIndex(...) !== -1: some cell of the row matches.
RowMatches(currentRow, targetTs) ==
    \E k \in 1..Len(currentRow) : CellMatches(currentRow[k], targetTs)

\* The protection as it would be were every row taken for remarked.
RowProtectedAlways(currentRow) == TRUE

\* const remarks = currentRow[5]; remarks && String(remarks).trim() !== ""
RowProtected(currentRow) ==
    /\ Len(currentRow) >= 6
    /\ Truthy(currentRow[6])
    /\ Trim(CellString(currentRow[6])) # <<>>

\* The scan `for (let i = rows.length - 1; i >= 0; i--)` from 0-based index
\* `from` down: the next index whose row is deleted, -1 when the scan ends.
NextDelete(rows, from, targetTs) ==
    LET hits == { i \in 0..from : /\ i + 1 <= Len(rows)
                                  /\ RowMatches(rows[i + 1], targetTs)
                                  /\ ~RowProtected(rows[i + 1]) }
    IN  IF hits = {} THEN 0 - 1 ELSE CHOOSE i \in hits : \A j \in hits : j <= i

\* const row = [item.company, item.product, item.count, `'${item.ts}`, now]
RowOf(item, now) ==
    << Str(item.company), Str(item.product), Num(item.count),
       Str(<<"'">> \o String(item.ts)), Str(now) >>

\* The locals of one call of appendData, deleteData or updateData, between two
\* of its awaits.  op is the function called, fn the one running (updateData
\* runs deleteData, then appendData), pc the request it awaits next.  log and
\* wrote are history: the requests answered, and the rows this call appended to
\* the first sheet and to company sheets.
NoCall ==
    [op |-> "none", fn |-> "none", pc |-> "none", status |-> "idle",
     ts |-> <<>>, dataList |-> <<>>, now |-> <<>>, item |-> 0,
     firstSheetName |-> <<>>, sheets |-> 0, sheet |-> 0, rows |-> <<>>, i |-> 0,
     log |-> <<>>, wrote |-> [master |-> 0, company |-> 0]]

NewCall(op, ts, dataList, now) ==
    [NoCall EXCEPT !.op = op,
                   !.fn = IF op = "appendData" THEN "appendData" ELSE "deleteData",
                   !.pc = "get", !.status = "running",
                   !.ts = ts, !.dataList = dataList, !.now = now]

Logged(f, request) == [f EXCEPT !.log = Append(@, request)]

Threw(f) == [f EXCEPT !.status = "threw", !.pc = "none"]

Returned(f) == [f EXCEPT !.status = "returned", !.pc = "none"]

\* deleteData returns: to its caller, or inside updateData to line 168.
AfterDeleteData(f) ==
    IF f.op = "updateData"
    THEN [f EXCEPT !.fn = "appendData", !.pc = "get"]
    ELSE Returned(f)

\* The for loop of deleteData moves to the sheet after `sheet`.
NextSheet(f) ==
    IF f.sheet + 1 > f.sheets THEN AfterDeleteData(f)
    ELSE [f EXCEPT !.sheet = @ + 1, !.pc = "values.get"]

\* The scan as it would be with a `break` after the first deletion in a sheet.
ScanFromFirstOnly(f, from) ==
    LET i == NextDelete(f.rows, from, TargetTs(f.ts))
    IN  IF i < 0 \/ from < Len(f.rows) - 1 THEN NextSheet(f)
        ELSE [f EXCEPT !.i = i, !.pc = "deleteDimension"]

\* The scan of f.rows goes on below index `from`.
ScanFrom(f, from) ==
    LET i == NextDelete(f.rows, from, TargetTs(f.ts))
    IN  IF i < 0 THEN NextSheet(f) ELSE [f EXCEPT !.i = i, !.pc = "deleteDimension"]

\* The for loop of appendData moves to the item after `item`.
NextItem(f) ==
    IF f.item + 1 > Len(f.dataList) THEN Returned(f)
    ELSE [f EXCEPT !.item = @ + 1, !.pc = "append.master"]

\* updateData as it would be were the failure of deleteData caught.
DeleteDataThrewCaught(f) == AfterDeleteData(f)

\* A request of deleteData rejects: nothing catches it, in deleteData or in
\* updateData.
DeleteDataThrew(f) == Threw(f)

\* catch (error) { console.warn(...) } of lines 134-136: the loop body goes on.
MasterAppendFailed(f) == [f EXCEPT !.pc = "ensure.get"]

\* The scan as it would be with the loop of lines 192-228 running upward
\* (for (let i = 0; i < rows.length; i++)): the first row at or above `from`
\* to delete, -1 when none is.
NextDeleteUpward(rows, from, targetTs) ==
    LET hits == { i \in from..(Len(rows) - 1) : /\ i >= 0
                                                 /\ RowMatches(rows[i + 1], targetTs)
                                                 /\ ~RowProtected(rows[i + 1]) }
    IN  IF hits = {} THEN 0 - 1 ELSE CHOOSE i \in hits : \A j \in hits : i <= j

ScanFromUpward(f, from) ==
    LET i == NextDeleteUpward(f.rows, from, TargetTs(f.ts))
    IN  IF i < 0 THEN NextSheet(f) ELSE [f EXCEPT !.i = i, !.pc = "deleteDimension"]

\* deleteData as it would be with the rows of a sheet scanned upward.
deleteDataStepUpward(f, st, ok) ==
    IF ~ok THEN [f |-> DeleteDataThrew(Logged(f, f.pc)), st |-> st]
    ELSE IF f.pc = "get"
         THEN [f |-> NextSheet([Logged(f, "get") EXCEPT !.sheets = Len(st), !.sheet = 0]),
               st |-> st]
    ELSE IF f.pc = "values.get"
         THEN LET g == [Logged(f, "values.get") EXCEPT !.rows = st[f.sheet].rows]
              IN  [f |-> ScanFromUpward(g, 0), st |-> st]
    ELSE [f |-> ScanFromUpward(Logged(f, "deleteDimension"), f.i + 1),
          st |-> DeleteRow(st, f.sheet, f.i)]

\* One request of deleteData is answered: st is the spreadsheet when it is, ok
\* whether the API fulfils it.
deleteDataStep(f, st, ok) ==
    IF ~ok THEN [f |-> DeleteDataThrew(Logged(f, f.pc)), st |-> st]
    ELSE IF f.pc = "get"
         \* sheets.spreadsheets.get, line 178: the sheets to walk
         THEN [f |-> NextSheet([Logged(f, "get") EXCEPT !.sheets = Len(st), !.sheet = 0]),
               st |-> st]
    ELSE IF f.pc = "values.get"
         \* lines 185-195: the rows of the sheet as they are now
         THEN LET g == [Logged(f, "values.get") EXCEPT !.rows = st[f.sheet].rows]
              IN  [f |-> ScanFrom(g, Len(g.rows) - 1), st |-> st]
    \* lines 211-227: row i of the sheet is deleted, the scan goes on above it
    ELSE [f |-> ScanFrom(Logged(f, "deleteDimension"), f.i - 1),
          st |-> DeleteRow(st, f.sheet, f.i)]

\* appendData as it would be were lines 139-151 in a try block like that of
\* the master write: the failure is logged and the next line is taken.
CompanyWriteFailedSwallowed(f) == NextItem(f)

\* A request of lines 139-151 (ensureSheetExists, the company append) is
\* rejected: the catch block of lines 148-151 rethrows.
CompanyWriteFailed(f) == Threw(f)

\* One request of appendData (ensureSheetExists included) is answered.
appendDataStep(f, st, ok) ==
    LET item == f.dataList[f.item]
        row  == RowOf(item, f.now)
    IN  IF f.pc = "get"
        \* lines 115-116
        THEN IF ok
             THEN [f |-> NextItem([Logged(f, "append:get") EXCEPT
                                     !.firstSheetName = st[1].title, !.item = 0]),
                   st |-> st]
             ELSE [f |-> Threw(Logged(f, "append:get")), st |-> st]
        ELSE IF f.pc = "append.master"
        \* lines 126-136
        THEN IF ok /\ SheetExists(st, f.firstSheetName)
             THEN [f |-> [Logged(f, "append.master") EXCEPT
                            !.pc = "ensure.get", !.wrote.master = @ + 1],
                   st |-> AppendRow(st, f.firstSheetName, row)]
             ELSE [f |-> MasterAppendFailed(Logged(f, "append.master")), st |-> st]
        ELSE IF f.pc = "ensure.get"
        \* ensureSheetExists, lines 63-67
        THEN IF ok
             THEN [f |-> [Logged(f, "ensure.get") EXCEPT
                            !.pc = IF SheetExists(st, item.company)
                                   THEN "append.company" ELSE "ensure.addSheet"],
                   st |-> st]
             ELSE [f |-> CompanyWriteFailed(Logged(f, "ensure.get")), st |-> st]
        ELSE IF f.pc = "ensure.addSheet"
        \* lines 69-78: a title that exists by now is refused
        THEN IF ok /\ ~SheetExists(st, item.company)
             THEN [f |-> [Logged(f, "ensure.addSheet") EXCEPT !.pc = "ensure.header"],
                   st |-> AddSheet(st, item.company)]
             ELSE [f |-> CompanyWriteFailed(Logged(f, "ensure.addSheet")), st |-> st]
        ELSE IF f.pc = "ensure.header"
        \* lines 82-89
        THEN IF ok
             THEN [f |-> [Logged(f, "ensure.header") EXCEPT !.pc = "append.company"],
                   st |-> WriteHeader(st, item.company)]
             ELSE [f |-> CompanyWriteFailed(Logged(f, "ensure.header")), st |-> st]
        \* lines 141-151
        ELSE IF ok /\ SheetExists(st, item.company)
             THEN [f |-> NextItem([Logged(f, "append.company") EXCEPT
                                     !.wrote.company = @ + 1]),
                   st |-> AppendRow(st, item.company, row)]
             ELSE [f |-> CompanyWriteFailed(Logged(f, "append.company")), st |-> st]

\* The call f goes on by one awaited request.
SyncStep(f, st, ok) ==
    IF f.fn = "deleteData" THEN deleteDataStep(f, st, ok) ELSE appendDataStep(f, st, ok)

\* No call of google-sheets.js is running and none was made.
SheetsIdle(st) ==
    /\ store = st
    /\ call = NoCall
    /\ done = <<>>
    /\ clicks = 0

\* A spreadsheet with one empty first sheet.
BlankStore == << [title |-> <<"M">>, rows |-> <<>>] >>

-----------------------------------------------------------------------------
(* slack-handler.js: the deduplicator *)

CACHE_SIZE == 100

\* currentTime - body.event_time > 60
STALE_AFTER == 60

\* A body with no event_id (undefined or ""), and one with no event_time.
NoId == 0
NoTime == 0

\* processedEvents.has(id)
Has(set, id) == \E i \in 1..Len(set) : set[i] = id

\* processedEvents.add(id): a Set keeps its elements in insertion order.
Add(set, id) == IF Has(set, id) THEN set ELSE Append(set, id)

\* if (processedEvents.size > CACHE_SIZE) processedEvents.delete(<first item>),
\* as it would be deleting the item added last before the new one.
EvictNewest(set) ==
    IF Len(set) > CACHE_SIZE
    THEN SubSeq(set, 1, Len(set) - 2) \o <<set[Len(set)]>>
    ELSE set

\* if (processedEvents.size > CACHE_SIZE) processedEvents.delete(<first item>)
Evict(set) == IF Len(set) > CACHE_SIZE THEN Tail(set) ELSE set

\* body.event_time && (currentTime - body.event_time > 60), without the check.
IsStaleNever(body, currentTime) == FALSE

\* body.event_time && (currentTime - body.event_time > 60)
IsStale(body, currentTime) ==
    body.event_time # NoTime /\ currentTime - body.event_time > STALE_AFTER

\* shouldSkipEvent that checks and forgets to record.
shouldSkipEventNoRecord(body, currentTime, set) ==
    IF body.event_id = NoId THEN [skip |-> FALSE, set |-> set]
    ELSE IF Has(set, body.event_id) THEN [skip |-> TRUE, set |-> set]
    ELSE IF IsStale(body, currentTime) THEN [skip |-> TRUE, set |-> set]
    ELSE [skip |-> FALSE, set |-> set]

\* shouldSkipEvent that runs an identity-less body through the set as well.
shouldSkipEventNoBypass(body, currentTime, set) ==
    IF Has(set, body.event_id) THEN [skip |-> TRUE, set |-> set]
    ELSE IF IsStale(body, currentTime) THEN [skip |-> TRUE, set |-> set]
    ELSE [skip |-> FALSE, set |-> Evict(Add(set, body.event_id))]

\* shouldSkipEvent(body), run at currentTime on the set: what it returns and
\* what it leaves the set as.
shouldSkipEvent(body, currentTime, set) ==
    IF body.event_id = NoId THEN [skip |-> FALSE, set |-> set]
    ELSE IF Has(set, body.event_id) THEN [skip |-> TRUE, set |-> set]
    ELSE IF IsStale(body, currentTime) THEN [skip |-> TRUE, set |-> set]
    ELSE [skip |-> FALSE, set |-> Evict(Add(set, body.event_id))]

NoSkip == [called |-> FALSE, event_id |-> NoId, event_time |-> NoTime,
           currentTime |-> 0, skip |-> FALSE, before |-> <<>>, after |-> <<>>]

SkipRecord(body, currentTime, set, r) ==
    [called |-> TRUE, event_id |-> body.event_id, event_time |-> body.event_time,
     currentTime |-> currentTime, skip |-> r.skip, before |-> set, after |-> r.set]

NoAction == [called |-> FALSE, trigger_id |-> NoId, skip |-> FALSE]

SlackIdle ==
    /\ processedEvents = <<>>
    /\ lastSkip = NoSkip
    /\ lastAction = NoAction
    /\ tasks = EmptyBag
    /\ passes = [total |-> 0, delivered |-> <<>>, count |-> <<>>, parsed |-> <<>>]
    /\ prompts = {}
    /\ syncCalls = {}

\* approve_order, lines 125-129: the trigger identity is looked up and, when
\* absent, added; the size of the set is not looked at.
approveDedup(trigger_id, set) ==
    IF Has(set, trigger_id) THEN [skip |-> TRUE, set |-> set]
    ELSE [skip |-> FALSE, set |-> Add(set, trigger_id)]

-----------------------------------------------------------------------------
(* The deduplicator alone: every statement that reads or writes               *)
(* processedEvents, on a stream of identities long enough to fill the set.   *)

MaxEvents == 102
EventTime == 1000

\* The trigger identities of button clicks: a namespace apart from event ids.
TriggerIds == {0 - 1}

\* The highest identity held, 0 when none is.
Highest(set) ==
    LET held == {set[i] : i \in 1..Len(set)} \cup {0}
    IN  CHOOSE h \in held : \A x \in held : x <= h

\* The identities the next event may carry: the next one never delivered
\* before, the oldest identity held when it is an event's, the one that left
\* the set CACHE_SIZE identities ago, or none.
CacheEventIds(set) ==
    LET hi == Highest(set)
    IN  ({hi + 1, hi - CACHE_SIZE} \cap 1..MaxEvents)
        \cup (IF set = <<>> THEN {} ELSE {x \in {set[1]} : x > 0})
        \cup {NoId}

CacheTimes == {EventTime + STALE_AFTER, EventTime + STALE_AFTER + 1}

\* A listener runs shouldSkipEvent(body).
CacheShouldSkip ==
    /\ \E id \in CacheEventIds(processedEvents) :
         \E et \in {EventTime} :
           \E currentTime \in CacheTimes :
             LET body == [event_id |-> id, event_time |-> et]
                 r    == shouldSkipEvent(body, currentTime, processedEvents)
             IN  /\ processedEvents' = r.set
                 /\ lastSkip' = SkipRecord(body, currentTime, processedEvents, r)
    /\ UNCHANGED <<parseVars, sheetVars, lastAction, tasks, passes, prompts, syncCalls>>

\* The approve_order listener runs its dedup step on a click's trigger_id.
CacheApprove ==
    /\ \E trigger_id \in TriggerIds :
         LET r == approveDedup(trigger_id, processedEvents)
         IN  /\ processedEvents' = r.set
             /\ lastAction' = [called |-> TRUE, trigger_id |-> trigger_id,
                               skip |-> r.skip]
    /\ UNCHANGED <<parseVars, sheetVars, lastSkip, tasks, passes, prompts, syncCalls>>

InitCache == ParseIdle /\ SlackIdle /\ SheetsIdle(BlankStore)

NextCache ==
    \/ CacheShouldSkip
    \/ CacheApprove

SpecCache == InitCache /\ [][NextCache]_vars

-----------------------------------------------------------------------------
(* The deduplicator on clicks and events that may lack an identity: the      *)
(* dedup step of approve_order next to shouldSkipEvent, on a few identities. *)

\* body.trigger_id of a click: one of the trigger identities, or none.
ClickTriggerIds == TriggerIds \cup {NoId}

\* body.event_id of an event: one of two identities, or none.
ClickEventIds == {1, 2, NoId}

\* A listener runs shouldSkipEvent(body).
ClickShouldSkip ==
    /\ \E id \in ClickEventIds :
         \E currentTime \in CacheTimes :
           LET body == [event_id |-> id, event_time |-> EventTime]
               r    == shouldSkipEvent(body, currentTime, processedEvents)
           IN  /\ processedEvents' = r.set
               /\ lastSkip' = SkipRecord(body, currentTime, processedEvents, r)
    /\ UNCHANGED <<parseVars, sheetVars, lastAction, tasks, passes, prompts, syncCalls>>

\* The approve_order listener runs its dedup step on a click's trigger_id.
ClickApprove ==
    /\ \E trigger_id \in ClickTriggerIds :
         LET r == approveDedup(trigger_id, processedEvents)
         IN  /\ processedEvents' = r.set
             /\ lastAction' = [called |-> TRUE, trigger_id |-> trigger_id,
                               skip |-> r.skip]
    /\ UNCHANGED <<parseVars, sheetVars, lastSkip, tasks, passes, prompts, syncCalls>>

InitClicks == ParseIdle /\ SlackIdle /\ SheetsIdle(BlankStore)

NextClicks ==
    \/ ClickShouldSkip
    \/ ClickApprove

SpecClicks == InitClicks /\ [][NextClicks]_vars

-----------------------------------------------------------------------------
(* The listeners of slack-handler.js on a stream of message events *)

MaxDeliveries == 2

\* The timestamps (message.ts) of the two channel messages of the model.
Ts1 == <<"1", ".", "1">>
Ts2 == <<"1", ".", "2">>

Plain == [sep |-> <<" ">>, lead |-> <<>>, trail |-> <<>>]

\* "일억원 근거 10", which fastParse matches, and "일억원 근거", which it does not.
FastText == MessageText(<<ilEokWon, geunGeo, <<"1", "0">>>>, Plain)
SlowText == MessageText(<<ilEokWon, geunGeo>>, Plain)

\* The events the platform delivers, each under its own event_id: two new
\* messages, an edit and a deletion of the first, a message with no event_id,
\* and the echo of a message this bot posted.  event.message of an edit is
\* folded into the event: text and ts are the edited message's.
Event(id, et, subtype, bot, t, ts) ==
    [event_id |-> id, event_time |-> et, subtype |-> subtype, bot_id |-> bot,
     message_bot_id |-> FALSE, text |-> t, ts |-> ts]

Events ==
    { Event(1, EventTime, "none", FALSE, FastText, Ts1),
      Event(2, NoTime, "none", FALSE, SlowText, Ts2),
      Event(3, EventTime, "message_changed", FALSE, SlowText, Ts1),
      Event(4, EventTime, "message_deleted", FALSE, <<>>, Ts1),
      Event(NoId, EventTime, "none", FALSE, FastText, Ts2),
      Event(5, EventTime, "none", TRUE, FastText, Ts2) }

EventIds == { e.event_id : e \in Events }

\* Date.now() / 1000 when a listener runs: the event is 60 or 61 seconds old.
FlowTimes == {EventTime + STALE_AFTER, EventTime + STALE_AFTER + 1}

\* What the extraction service answers in this specification.
FlowAiResponses ==
    { [kind |-> "notJson", items |-> <<>>],
      [kind |-> "array", items |-> <<AiItem(ilEokWon, <<"geu", "rin">>, 2)>>] }

Task(listener, body) ==
    [listener |-> listener, body |-> body, pc |-> "start", data |-> <<>>,
     call |-> NoCall]

\* The platform delivers an event (for the first time, or again); Bolt hands it
\* to both listeners registered for message events.
Deliver ==
    /\ passes.total < MaxDeliveries
    /\ \E e \in Events :
         LET body == [event_id |-> e.event_id, event_time |-> e.event_time, event |-> e]
         IN  /\ tasks' = tasks (+) SetToBag({Task("message", body), Task("event", body)})
             /\ passes' = [passes EXCEPT !.total = @ + 1,
                                          !.delivered[e.event_id] = @ + 1]
    /\ UNCHANGED <<parseVars, sheetVars, processedEvents, lastSkip, lastAction, prompts, syncCalls>>

Finish(t) == tasks' = tasks (-) SetToBag({t})

Resume(t, at, data) ==
    tasks' = (tasks (-) SetToBag({t})) (+) SetToBag({[t EXCEPT !.pc = at, !.data = data]})

\* The gate of a listener: shouldSkipEvent(body) run at currentTime.
Gate(t, currentTime) == shouldSkipEvent(t.body, currentTime, processedEvents)

\* After the gate the message listener calls parseMessage (line 74), the
\* event listener does for an edit (line 199).
CallsParse(t) == t.listener = "message" \/ t.body.event.subtype = "message_changed"

GateEffect(t, currentTime) ==
    LET r == Gate(t, currentTime)
    IN  /\ processedEvents' = r.set
        /\ lastSkip' = SkipRecord(t.body, currentTime, processedEvents, r)
        /\ passes' = IF r.skip THEN passes
                     ELSE [passes EXCEPT !.count[t.body.event_id] = @ + 1,
                                         !.parsed[t.body.event_id] =
                                             @ + (IF CallsParse(t) THEN 1 ELSE 0)]

\* parseMessage(text) up to its first suspension: fastParse, and on null the
\* credential check of aiParse.  A throw lands in the listener's catch block.
StartParse(t, t2, key) ==
    LET q == fastParse(t2)
    IN  IF ReturnsQuickResult(q) THEN Resume(t, "parsed", q.lines)
        ELSE IF aiParseThrows(key) THEN Finish(t)
        ELSE Resume(t, "generateContent", <<>>)

\* app.message, lines 69-74: the subtype and bot filter, the gate, and the call
\* of parseMessage.
MessageListener(t) ==
    /\ t.listener = "message" /\ t.pc = "start"
    /\ IF t.body.event.subtype # "none" \/ t.body.event.bot_id
       THEN /\ Finish(t)
            /\ UNCHANGED <<processedEvents, lastSkip, passes>>
       ELSE \E currentTime \in FlowTimes :
              /\ GateEffect(t, currentTime)
              /\ IF Gate(t, currentTime).skip THEN Finish(t)
                 ELSE \E key \in BOOLEAN : StartParse(t, t.body.event.text, key)
    /\ UNCHANGED <<parseVars, sheetVars, lastAction, prompts, syncCalls>>

\* app.event('message'), lines 189-200 and 216-222: the bot filter, the gate,
\* then by subtype the call of parseMessage or of deleteData.
EventListener(t) ==
    /\ t.listener = "event" /\ t.pc = "start"
    /\ IF t.body.event.bot_id \/ t.body.event.message_bot_id
       THEN /\ Finish(t)
            /\ UNCHANGED <<processedEvents, lastSkip, passes>>
       ELSE \E currentTime \in FlowTimes :
              /\ GateEffect(t, currentTime)
              /\ IF Gate(t, currentTime).skip THEN Finish(t)
                 ELSE IF t.body.event.subtype = "message_changed"
                      THEN \E key \in BOOLEAN : StartParse(t, t.body.event.text, key)
                 ELSE IF t.body.event.subtype = "message_deleted"
                      THEN Resume(t, "deleteData", <<>>)
                 ELSE Finish(t)
    /\ UNCHANGED <<parseVars, sheetVars, lastAction, prompts, syncCalls>>

\* aiParse, lines 120-134: the extraction service answers a listener's call.
ListenerAiAnswer(t) ==
    /\ t.pc = "generateContent"
    /\ \E resp \in FlowAiResponses : Resume(t, "parsed", aiDecode(resp))
    /\ UNCHANGED <<parseVars, sheetVars, processedEvents, lastSkip, lastAction, passes, prompts,
                   syncCalls>>

\* The map as it would be without `ts: message.ts`: the lines keep the ts the
\* parser gave them, null or none.
WithTsLeftOut(lines, ts) ==
    [i \in 1..Len(lines) |->
        [company |-> lines[i].company, product |-> lines[i].product,
         count |-> lines[i].count,
         ts |-> IF "ts" \in DOMAIN lines[i] THEN lines[i].ts ELSE Undefined]]

\* parsedData.map(item => ({ ...item, ts }))
WithTs(lines, ts) ==
    [i \in 1..Len(lines) |->
        [company |-> lines[i].company, product |-> lines[i].product,
         count |-> lines[i].count, ts |-> ts]]

\* JSON text, as the values it spells: a string, a number or null, and an
\* object as its members in order.
JsonNull == [null |-> TRUE]

\* The members JSON.stringify writes for one key of an item: none for a value
\* that is undefined.  (count is a number in every line of the model.)
JsonMember(item, key) ==
    IF key = "count" THEN << <<key, Num(item[key])>> >>
    ELSE IF item[key] = Undefined THEN <<>>
    ELSE IF item[key] = Null THEN << <<key, JsonNull>> >>
    ELSE << <<key, Str(item[key])>> >>

\* JSON.stringify(items), lines 100: the items in order, each with the keys
\* company, product, count, ts in the order the object holds them.
JsonStringify(items) ==
    [i \in 1..Len(items) |->
        JsonMember(items[i], "company") \o JsonMember(items[i], "product")
            \o JsonMember(items[i], "count") \o JsonMember(items[i], "ts")]

\* What reading `key` of a parsed object gives: undefined when the object has
\* no such member.
JsonRead(object, key) ==
    IF \E m \in 1..Len(object) : object[m][1] = key
    THEN LET value == object[CHOOSE m \in 1..Len(object) : object[m][1] = key][2]
         IN  IF value = JsonNull THEN Null
             ELSE IF IsNumber(value) THEN value.number
             ELSE value.string
    ELSE Undefined

\* JSON.parse(action.value), line 133, read by the keys appendData reads.
JsonParse(jsonText) ==
    [i \in 1..Len(jsonText) |->
        [company |-> JsonRead(jsonText[i], "company"),
         product |-> JsonRead(jsonText[i], "product"),
         count |-> JsonRead(jsonText[i], "count"),
         ts |-> JsonRead(jsonText[i], "ts")]]

\* app.message, lines 76-112: a non-empty batch is posted as a confirmation
\* prompt whose approve button carries the batch.  parsedData is history (the
\* batch as parsed); display and failed are what the thread shows.
MessagePrompt(t) ==
    /\ t.listener = "message" /\ t.pc = "parsed"
    /\ prompts' = IF Len(t.data) > 0
                  THEN prompts \cup {[thread_ts |-> t.body.event.ts,
                                      company |-> t.data[1].company,
                                      value |-> JsonStringify(WithTs(t.data, t.body.event.ts)),
                                      parsedData |-> t.data,
                                      display |-> "awaiting",
                                      failed |-> FALSE]}
                  ELSE prompts
    /\ Finish(t)
    /\ UNCHANGED <<parseVars, sheetVars, processedEvents, lastSkip, lastAction, passes, syncCalls>>

\* app.event('message'), lines 201-206: the re-parsed batch goes to updateData.
EventUpdate(t) ==
    /\ t.listener = "event" /\ t.pc = "parsed"
    /\ syncCalls' = syncCalls \cup {[op |-> "updateData", ts |-> t.body.event.ts,
                                     lines |-> WithTs(t.data, t.body.event.ts)]}
    /\ Finish(t)
    /\ UNCHANGED <<parseVars, sheetVars, processedEvents, lastSkip, lastAction, passes, prompts>>

\* app.event('message'), lines 219-223: deleteData(deleted_ts).
EventDelete(t) ==
    /\ t.listener = "event" /\ t.pc = "deleteData"
    /\ syncCalls' = syncCalls \cup {[op |-> "deleteData", ts |-> t.body.event.ts,
                                     lines |-> <<>>]}
    /\ Finish(t)
    /\ UNCHANGED <<parseVars, sheetVars, processedEvents, lastSkip, lastAction, passes, prompts>>

Init ==
    /\ ParseIdle
    /\ processedEvents = <<>>
    /\ lastSkip = NoSkip
    /\ lastAction = NoAction
    /\ tasks = EmptyBag
    /\ passes = [total |-> 0, delivered |-> [id \in EventIds |-> 0],
                 count |-> [id \in EventIds |-> 0],
                 parsed |-> [id \in EventIds |-> 0]]
    /\ prompts = {}
    /\ syncCalls = {}
    /\ SheetsIdle(BlankStore)

Next ==
    \/ Deliver
    \/ \E t \in BagToSet(tasks) : MessageListener(t)
    \/ \E t \in BagToSet(tasks) : EventListener(t)
    \/ \E t \in BagToSet(tasks) : ListenerAiAnswer(t)
    \/ \E t \in BagToSet(tasks) : MessagePrompt(t)
    \/ \E t \in BagToSet(tasks) : EventUpdate(t)
    \/ \E t \in BagToSet(tasks) : EventDelete(t)

Spec == Init /\ [][Next]_vars

-----------------------------------------------------------------------------
(* google-sheets.js alone: calls of appendData, deleteData and updateData,   *)
(* one after the other, on spreadsheets that hold rows already.              *)

MaxCalls == 2

CompanyA == <<"A">>
MasterTitle == <<"M">>

\* new Date().toLocaleString(...) during the n-th call; "t0" is the past.
Now(n) == <<"t", Digits[n + 1]>>

\* A row as Sheets holds it once written: the marker of the Slack_TS cell is
\* consumed on entry.  `remarks` is what a person typed into column F, if
\* anything.
StoredRow(company, ts, remarks) ==
    <<Str(company), Str(keunGeo), Num(3), Str(ts), Str(Now(0))>> \o remarks

Unremarked == <<>>
Remarked == <<Str(<<"o", "k">>)>>      \* a note
RemarkedZero == <<Num(0)>>              \* the number 0
RemarkedBlank == <<Str(<<" ">>)>>       \* a blank

\* The rows a sheet may hold at the start.  The last ones hold a remarked row
\* between two plain ones, rows remarked 0 or blank, and a row of another
\* message whose company is spelled like the timestamp of the first.
Tables ==
    { <<>>,
      <<Header, StoredRow(CompanyA, Ts1, Unremarked)>>,
      <<Header, StoredRow(CompanyA, Ts1, Unremarked), StoredRow(CompanyA, Ts1, Remarked),
        StoredRow(CompanyA, Ts1, Unremarked), StoredRow(CompanyA, Ts2, Unremarked)>>,
      <<Header, StoredRow(CompanyA, Ts1, RemarkedZero), StoredRow(CompanyA, Ts2, Unremarked),
        StoredRow(CompanyA, Ts1, RemarkedBlank)>>,
      <<Header, StoredRow(Ts1, Ts2, Unremarked), StoredRow(CompanyA, Ts1, Unremarked)>> }

CompanyTables ==
    { <<Header, StoredRow(CompanyA, Ts1, Unremarked)>>,
      <<Header, StoredRow(CompanyA, Ts1, Remarked), StoredRow(CompanyA, Ts1, Unremarked)>> }

\* The spreadsheets: a first sheet alone, or with the sheet of company A behind
\* it; the first sheet may itself be titled like company A.
Stores ==
    { << [title |-> MasterTitle, rows |-> m] >> : m \in Tables }
    \cup { << [title |-> MasterTitle, rows |-> <<Header>>],
              [title |-> CompanyA, rows |-> c] >> : c \in CompanyTables }
    \cup { << [title |-> CompanyA, rows |-> <<Header>>] >> }

Line(company, product, count, ts) ==
    [company |-> company, product |-> product, count |-> count, ts |-> ts]

\* One line and two lines of the message Ts1, and a line of the message Ts2.
DataLists ==
    { <<Line(CompanyA, keunGeo, 10, Ts1)>>,
      <<Line(CompanyA, keunGeo, 10, Ts1), Line(CompanyA, nokSaek, 2, Ts1)>>,
      <<Line(CompanyA, paRang, 1, Ts2)>> }

\* The calls a caller may make: deleteData and updateData for the message Ts1.
SyncArgs ==
    { [op |-> "appendData", ts |-> <<>>, dataList |-> d] : d \in DataLists }
    \cup { [op |-> "deleteData", ts |-> Ts1, dataList |-> <<>>] }
    \cup { [op |-> "updateData", ts |-> Ts1, dataList |-> d] : d \in DataLists }

\* A caller calls appendData, deleteData or updateData, once the call before
\* has returned.
SyncCall ==
    /\ call.status \in {"idle", "returned"}
    /\ Len(done) < MaxCalls
    /\ \E a \in SyncArgs :
         /\ call' = NewCall(a.op, a.ts, a.dataList, Now(Len(done) + 1))
         /\ done' = Append(done, [op |-> a.op, ts |-> a.ts, dataList |-> a.dataList,
                                  before |-> store, after |-> store,
                                  status |-> "running", rejected |-> 0,
                                  rejectedAt |-> <<>>,
                                  log |-> <<>>, wrote |-> call'.wrote,
                                  by |-> NoId, outcome |-> "none"])
    /\ UNCHANGED <<parseVars, slackVars, store, clicks>>

\* The Sheets API answers the request the call awaits: it fulfils or rejects it.
SyncAnswer ==
    /\ call.status = "running"
    /\ \E ok \in BOOLEAN :
         LET r == SyncStep(call, store, ok)
         IN  /\ call' = r.f
             /\ store' = r.st
             /\ done' = [done EXCEPT ![Len(done)] =
                           [@ EXCEPT !.after = r.st, !.status = r.f.status,
                                     !.rejected = @ + (IF ok THEN 0 ELSE 1),
                                     !.rejectedAt = IF ok THEN @ ELSE Append(@, call.pc),
                                     !.log = r.f.log, !.wrote = r.f.wrote]]
    /\ UNCHANGED <<parseVars, slackVars, clicks>>

InitSync ==
    /\ ParseIdle
    /\ SlackIdle
    /\ \E st \in Stores : SheetsIdle(st)

NextSync ==
    \/ SyncCall
    \/ SyncAnswer

SpecSync == InitSync /\ [][NextSync]_vars

-----------------------------------------------------------------------------
(* slack-handler.js: the approve_order and cancel_order listeners, on the    *)
(* prompts the message listener posts, writing to the spreadsheet.  Requests *)
(* to Slack (ack, chat.update, chat.postMessage) resolve; requests to the    *)
(* Sheets API are answered or rejected.                                      *)

MaxOrders == 1
MaxClicks == 1

\* "일억원 근거 10 녹색 2": two lines for one company on the fast path.
TwoLineText ==
    MessageText(<<ilEokWon, geunGeo, <<"1", "0">>, nokSaek, <<"2">>>>, Plain)

\* The new messages delivered: one fastParse matches, one left to aiParse.
OrderEvents ==
    { Event(1, EventTime, "none", FALSE, TwoLineText, Ts1),
      Event(2, NoTime, "none", FALSE, SlowText, Ts2) }

\* The spreadsheets: the first sheet alone, with the sheet of 일억원 behind it,
\* or itself titled 일억원.
ApproveStores ==
    { << [title |-> MasterTitle, rows |-> <<Header>>] >>,
      << [title |-> MasterTitle, rows |-> <<Header>>],
         [title |-> ilEokWon, rows |-> <<Header>>] >>,
      << [title |-> ilEokWon, rows |-> <<Header>>] >> }

\* The platform delivers a new message to both message listeners, once every
\* listener started before has finished.
DeliverOrder ==
    /\ passes.total < MaxOrders
    /\ tasks = EmptyBag
    /\ \E e \in OrderEvents :
         LET body == [event_id |-> e.event_id, event_time |-> e.event_time, event |-> e]
         IN  /\ tasks' = tasks (+) SetToBag({Task("message", body), Task("event", body)})
             /\ passes' = [passes EXCEPT !.total = @ + 1,
                                          !.delivered[e.event_id] = @ + 1]
    /\ UNCHANGED <<parseVars, sheetVars, processedEvents, lastSkip, lastAction, prompts,
                   syncCalls>>

\* body.message of a click: the prompt the button sits on.
SamePrompt(p, body) == p.thread_ts = body.thread_ts /\ p.value = body.value

\* A user clicks 승인 or 취소 on a prompt that shows its buttons, once every
\* listener started before has finished; the platform gives the click a
\* trigger_id of its own.
Click ==
    /\ clicks < MaxClicks
    /\ tasks = EmptyBag
    /\ \E p \in prompts :
         \E action_id \in {"approve_order", "cancel_order"} :
           /\ p.display = "awaiting"
           /\ tasks' = tasks (+) SetToBag({
                  [listener |-> action_id,
                   body |-> [trigger_id |-> 0 - (clicks + 1), thread_ts |-> p.thread_ts,
                             value |-> p.value],
                   pc |-> "ack", data |-> <<>>, call |-> NoCall]})
    /\ clicks' = clicks + 1
    /\ UNCHANGED <<parseVars, processedEvents, lastSkip, lastAction, passes, prompts,
                   syncCalls, store, call, done>>

\* The entry of `done` for the appendData call the click with this trigger made.
DoneBy(trigger_id) == CHOOSE n \in 1..Len(done) : done[n].by = trigger_id

Recorded(entry, f, st) ==
    [entry EXCEPT !.after = st, !.status = f.status, !.log = f.log, !.wrote = f.wrote]

\* client.chat.update of lines 142-152 and 171-181: the prompt shows `display`
\* and no buttons.
ChatUpdate(ps, body, display) ==
    { IF SamePrompt(p, body) THEN [p EXCEPT !.display = display] ELSE p : p \in ps }

\* client.chat.postMessage of lines 157-161: the failure is posted in the thread.
PostFailure(ps, body) ==
    { IF SamePrompt(p, body) THEN [p EXCEPT !.failed = TRUE] ELSE p : p \in ps }

\* approve_order, lines 122-138, once ack() has resolved: the dedup step on the
\* trigger_id, JSON.parse of the button value, and with a sheet selected the
\* call of appendData, up to its first request.
ApproveAck(t) ==
    /\ t.listener = "approve_order" /\ t.pc = "ack"
    /\ LET r == approveDedup(t.body.trigger_id, processedEvents)
       IN  /\ processedEvents' = r.set
           /\ lastAction' = [called |-> TRUE, trigger_id |-> t.body.trigger_id,
                             skip |-> r.skip]
           /\ IF r.skip
              THEN Finish(t) /\ done' = done
              ELSE \E SELECTED_SHEET_ID \in BOOLEAN :
                     IF ~SELECTED_SHEET_ID
                     THEN Finish(t) /\ done' = done
                     ELSE LET dataToSave == JsonParse(t.body.value)
                              f == NewCall("appendData", <<>>, dataToSave,
                                           Now(Len(done) + 1))
                          IN  /\ tasks' = (tasks (-) SetToBag({t})) (+) SetToBag({
                                     [t EXCEPT !.pc = "appendData", !.call = f]})
                              /\ done' = Append(done,
                                     [op |-> "appendData", ts |-> <<>>,
                                      dataList |-> dataToSave,
                                      before |-> store, after |-> store,
                                      status |-> "running", rejected |-> 0,
                                      rejectedAt |-> <<>>,
                                      log |-> <<>>, wrote |-> f.wrote,
                                      by |-> t.body.trigger_id, outcome |-> "none"])
    /\ UNCHANGED <<parseVars, lastSkip, passes, prompts, syncCalls, store, call, clicks>>

\* approve_order, line 138: the Sheets API answers the request appendData
\* awaits.  A return leads to line 142, a throw to the catch block.
ApproveAppend(t) ==
    /\ t.listener = "approve_order" /\ t.pc = "appendData"
    /\ \E ok \in BOOLEAN :
         LET r == SyncStep(t.call, store, ok)
             at == IF r.f.status = "returned" THEN "chat.update"
                   ELSE IF r.f.status = "threw" THEN "postMessage"
                   ELSE "appendData"
             n == DoneBy(t.body.trigger_id)
         IN  /\ store' = r.st
             /\ tasks' = (tasks (-) SetToBag({t})) (+) SetToBag({
                    [t EXCEPT !.pc = at, !.call = r.f]})
             /\ done' = [done EXCEPT ![n] =
                           [Recorded(@, r.f, r.st) EXCEPT
                               !.rejected = @ + (IF ok THEN 0 ELSE 1),
                               !.rejectedAt = IF ok THEN @ ELSE Append(@, t.call.pc)]]
    /\ UNCHANGED <<parseVars, processedEvents, lastSkip, lastAction, passes, prompts,
                   syncCalls, call, clicks>>

\* approve_order, lines 142-152: the prompt is replaced by the success display.
ApproveUpdate(t) ==
    /\ t.listener = "approve_order" /\ t.pc = "chat.update"
    /\ prompts' = ChatUpdate(prompts, t.body, "success")
    /\ done' = [done EXCEPT ![DoneBy(t.body.trigger_id)].outcome = "success"]
    /\ Finish(t)
    /\ UNCHANGED <<parseVars, processedEvents, lastSkip, lastAction, passes, syncCalls,
                   store, call, clicks>>

\* approve_order, lines 154-162: the catch block posts the failure.
ApproveError(t) ==
    /\ t.listener = "approve_order" /\ t.pc = "postMessage"
    /\ prompts' = PostFailure(prompts, t.body)
    /\ done' = [done EXCEPT ![DoneBy(t.body.trigger_id)].outcome = "error"]
    /\ Finish(t)
    /\ UNCHANGED <<parseVars, processedEvents, lastSkip, lastAction, passes, syncCalls,
                   store, call, clicks>>

\* cancel_order as it would be had it kept the write of approve_order: the
\* lines of the button value are appended to the first sheet.
cancelOrderWrites(ps, body, st) ==
    LET dataToSave == JsonParse(body.value)
    IN  [prompts |-> ChatUpdate(ps, body, "cancelled"),
         store |-> AppendRow(st, st[1].title, RowOf(dataToSave[1], Now(0)))]

\* cancel_order, lines 171-181: what the listener does to the prompts and to
\* the spreadsheet once ack() has resolved.
cancelOrder(ps, body, st) ==
    [prompts |-> ChatUpdate(ps, body, "cancelled"), store |-> st]

\* cancel_order, line 169: ack() resolves.
CancelAck(t) ==
    /\ t.listener = "cancel_order" /\ t.pc = "ack"
    /\ Resume(t, "chat.update", t.data)
    /\ UNCHANGED <<parseVars, sheetVars, processedEvents, lastSkip, lastAction, passes,
                   prompts, syncCalls>>

\* cancel_order, lines 171-181.
CancelUpdate(t) ==
    /\ t.listener = "cancel_order" /\ t.pc = "chat.update"
    /\ LET r == cancelOrder(prompts, t.body, store)
       IN  /\ prompts' = r.prompts
           /\ store' = r.store
    /\ Finish(t)
    /\ UNCHANGED <<parseVars, processedEvents, lastSkip, lastAction, passes, syncCalls,
                   call, done, clicks>>

InitApprove ==
    /\ ParseIdle
    /\ processedEvents = <<>>
    /\ lastSkip = NoSkip
    /\ lastAction = NoAction
    /\ tasks = EmptyBag
    /\ passes = [total |-> 0, delivered |-> [id \in EventIds |-> 0],
                 count |-> [id \in EventIds |-> 0],
                 parsed |-> [id \in EventIds |-> 0]]
    /\ prompts = {}
    /\ syncCalls = {}
    /\ \E st \in ApproveStores : SheetsIdle(st)

NextApprove ==
    \/ DeliverOrder
    \/ Click
    \/ \E t \in BagToSet(tasks) : MessageListener(t)
    \/ \E t \in BagToSet(tasks) : EventListener(t)
    \/ \E t \in BagToSet(tasks) : ListenerAiAnswer(t)
    \/ \E t \in BagToSet(tasks) : MessagePrompt(t)
    \/ \E t \in BagToSet(tasks) : ApproveAck(t)
    \/ \E t \in BagToSet(tasks) : ApproveAppend(t)
    \/ \E t \in BagToSet(tasks) : ApproveUpdate(t)
    \/ \E t \in BagToSet(tasks) : ApproveError(t)
    \/ \E t \in BagToSet(tasks) : CancelAck(t)
    \/ \E t \in BagToSet(tasks) : CancelUpdate(t)

SpecApprove == InitApprove /\ [][NextApprove]_vars

-----------------------------------------------------------------------------
(* slack-handler.js: several clicks on one prompt.  The message "일억원 근거   *)
(* 10" has been handled and its prompt posted; the clicks are delivered      *)
(* while the prompt shows its buttons, and their listeners interleave at     *)
(* every await.                                                              *)

MaxDecisions == 2

\* The message whose prompt is clicked, as Bolt handed it to the listeners.
DecideBody ==
    LET e == Event(1, EventTime, "none", FALSE, FastText, Ts1)
    IN  [event_id |-> e.event_id, event_time |-> e.event_time, event |-> e]

\* The prompt app.message posted for it (lines 76-112).
DecidePrompt ==
    LET parsedData == fastParse(FastText).lines
    IN  [thread_ts |-> Ts1,
         company |-> parsedData[1].company,
         value |-> JsonStringify(WithTs(parsedData, Ts1)),
         parsedData |-> parsedData,
         display |-> "awaiting",
         failed |-> FALSE]

\* A user clicks 승인 or 취소 while the prompt shows its buttons, whatever the
\* listeners of earlier clicks are doing; every click has its own trigger_id.
ClickAny ==
    /\ clicks < MaxDecisions
    /\ \E p \in prompts :
         \E action_id \in {"approve_order", "cancel_order"} :
           /\ p.display = "awaiting"
           /\ tasks' = tasks (+) SetToBag({
                  [listener |-> action_id,
                   body |-> [trigger_id |-> 0 - (clicks + 1), thread_ts |-> p.thread_ts,
                             value |-> p.value],
                   pc |-> "ack", data |-> <<>>, call |-> NoCall]})
    /\ clicks' = clicks + 1
    /\ UNCHANGED <<parseVars, processedEvents, lastSkip, lastAction, passes, prompts,
                   syncCalls, store, call, done>>

\* The message listener gated the message first, the event listener then
\* skipped it.
InitDecide ==
    /\ ParseIdle
    /\ LET currentTime == EventTime + STALE_AFTER
           first == shouldSkipEvent(DecideBody, currentTime, <<>>)
           second == shouldSkipEvent(DecideBody, currentTime, first.set)
       IN  /\ processedEvents = second.set
           /\ lastSkip = SkipRecord(DecideBody, currentTime, first.set, second)
    /\ lastAction = NoAction
    /\ tasks = EmptyBag
    /\ passes = [total |-> 1,
                 delivered |-> [id \in EventIds |-> IF id = 1 THEN 1 ELSE 0],
                 count |-> [id \in EventIds |-> IF id = 1 THEN 1 ELSE 0],
                 parsed |-> [id \in EventIds |-> IF id = 1 THEN 1 ELSE 0]]
    /\ prompts = {DecidePrompt}
    /\ syncCalls = {}
    /\ \E st \in ApproveStores : SheetsIdle(st)

NextDecide ==
    \/ ClickAny
    \/ \E t \in BagToSet(tasks) : ApproveAck(t)
    \/ \E t \in BagToSet(tasks) : ApproveAppend(t)
    \/ \E t \in BagToSet(tasks) : ApproveUpdate(t)
    \/ \E t \in BagToSet(tasks) : ApproveError(t)
    \/ \E t \in BagToSet(tasks) : CancelAck(t)
    \/ \E t \in BagToSet(tasks) : CancelUpdate(t)

SpecDecide == InitDecide /\ [][NextDecide]_vars

-----------------------------------------------------------------------------
(* slack-handler.js and google-sheets.js: edits and deletions of messages    *)
(* handled at once.  Every listener is a task of its own; the calls of       *)
(* deleteData and updateData interleave at every request they await.         *)

MaxRaces == 2

Ts3 == <<"1", ".", "3">>

\* The events delivered: the messages 1.1 and 1.2 are deleted, the message 1.1
\* is edited to "일억원 근거 10".
RaceEvents ==
    { Event(4, EventTime, "message_deleted", FALSE, <<>>, Ts1),
      Event(6, EventTime, "message_deleted", FALSE, <<>>, Ts2),
      Event(3, EventTime, "message_changed", FALSE, FastText, Ts1) }

RaceEventIds == { e.event_id : e \in RaceEvents }

\* The spreadsheet: the first sheet holds one row of each of three messages.
RaceStores ==
    { << [title |-> MasterTitle,
          rows |-> <<Header, StoredRow(CompanyA, Ts2, Unremarked),
                     StoredRow(CompanyA, Ts1, Unremarked),
                     StoredRow(CompanyA, Ts3, Unremarked)>>] >> }

\* The platform delivers an edit or a deletion, each once, to both listeners.
RaceDeliver ==
    /\ passes.total < MaxRaces
    /\ \E e \in RaceEvents :
         LET body == [event_id |-> e.event_id, event_time |-> e.event_time, event |-> e]
         IN  /\ passes.delivered[e.event_id] = 0
             /\ tasks' = tasks (+) SetToBag({Task("message", body), Task("event", body)})
             /\ passes' = [passes EXCEPT !.total = @ + 1,
                                          !.delivered[e.event_id] = @ + 1]
    /\ UNCHANGED <<parseVars, sheetVars, processedEvents, lastSkip, lastAction, prompts,
                   syncCalls>>

\* The task goes on with the call f of google-sheets.js.
Calling(t, f) ==
    tasks' = (tasks (-) SetToBag({t})) (+) SetToBag({[t EXCEPT !.pc = "sheets", !.call = f]})

\* app.event('message'), lines 201-206: with a sheet selected the re-parsed
\* batch goes to updateData, up to its first request.
EventUpdateCall(t) ==
    /\ t.listener = "event" /\ t.pc = "parsed"
    /\ \E SELECTED_SHEET_ID \in BOOLEAN :
         IF SELECTED_SHEET_ID
         THEN Calling(t, NewCall("updateData", t.body.event.ts,
                                 WithTs(t.data, t.body.event.ts), Now(t.body.event_id)))
         ELSE Finish(t)
    /\ UNCHANGED <<parseVars, sheetVars, processedEvents, lastSkip, lastAction, passes,
                   prompts, syncCalls>>

\* app.event('message'), lines 219-223: with a sheet selected deleteData is
\* called, up to its first request.
EventDeleteCall(t) ==
    /\ t.listener = "event" /\ t.pc = "deleteData"
    /\ \E SELECTED_SHEET_ID \in BOOLEAN :
         IF SELECTED_SHEET_ID
         THEN Calling(t, NewCall("deleteData", t.body.event.ts, <<>>,
                                 Now(t.body.event_id)))
         ELSE Finish(t)
    /\ UNCHANGED <<parseVars, sheetVars, processedEvents, lastSkip, lastAction, passes,
                   prompts, syncCalls>>

\* Lines 204 and 221: the Sheets API answers the request the call of the task
\* awaits.  The listener ends when the call returns, and when it throws (the
\* catch blocks of lines 207 and 224 log).
EventSync(t) ==
    /\ t.listener = "event" /\ t.pc = "sheets"
    /\ \E ok \in BOOLEAN :
         LET r == SyncStep(t.call, store, ok)
         IN  /\ store' = r.st
             /\ IF r.f.status = "running" THEN Calling(t, r.f) ELSE Finish(t)
    /\ UNCHANGED <<parseVars, processedEvents, lastSkip, lastAction, passes, prompts,
                   syncCalls, call, done, clicks>>

InitRace ==
    /\ ParseIdle
    /\ processedEvents = <<>>
    /\ lastSkip = NoSkip
    /\ lastAction = NoAction
    /\ tasks = EmptyBag
    /\ passes = [total |-> 0, delivered |-> [id \in RaceEventIds |-> 0],
                 count |-> [id \in RaceEventIds |-> 0],
                 parsed |-> [id \in RaceEventIds |-> 0]]
    /\ prompts = {}
    /\ syncCalls = {}
    /\ \E st \in RaceStores : SheetsIdle(st)

NextRace ==
    \/ RaceDeliver
    \/ \E t \in BagToSet(tasks) : MessageListener(t)
    \/ \E t \in BagToSet(tasks) : EventListener(t)
    \/ \E t \in BagToSet(tasks) : EventUpdateCall(t)
    \/ \E t \in BagToSet(tasks) : EventDeleteCall(t)
    \/ \E t \in BagToSet(tasks) : EventSync(t)

SpecRace == InitRace /\ [][NextRace]_vars

-----------------------------------------------------------------------------
(* normalizeProduct on every token of NormalizeInputs *)

InitNormalize ==
    /\ tokens = <<>>
    /\ text \in NormalizeInputs
    /\ pc = "normalizeProduct"
    /\ calls = <<>>
    /\ quickResult = NO_MATCH
    /\ credential = "unread"
    /\ outcome = NoOutcome
    /\ SlackIdle
    /\ SheetsIdle(BlankStore)

NextNormalize == Normalize

SpecNormalize == InitNormalize /\ [][NextNormalize]_vars

-----------------------------------------------------------------------------
(* parseMessage on every message of up to MaxTokens tokens *)

InitParse ==
    /\ \E n \in 0..MaxTokens :
         \E toks \in [1..n -> TokenPool] :
           \E style \in WsStyles :
             /\ tokens = toks
             /\ text = MessageText(toks, style)
    /\ pc = "parseMessage"
    /\ calls = <<>>
    /\ quickResult = NO_MATCH
    /\ credential = "unread"
    /\ outcome = NoOutcome
    /\ SlackIdle
    /\ SheetsIdle(BlankStore)

NextParse ==
    \/ ParseMessageFast
    \/ AiParseEnter
    \/ AiGenerateContent

SpecParse == InitParse /\ [][NextParse]_vars

-----------------------------------------------------------------------------
(* Properties of the parsing pipeline *)

Called(name) == \E i \in 1..Len(calls) : calls[i] = name

\* C6: parseMessage runs fastParse first; aiParse and the extraction service are
\* invoked only after fastParse returned null for the same text, and when
\* fastParse matched its result is returned as is with no other call made.
FastPathFirst ==
    /\ pc # "parseMessage" => calls[1] = "fastParse"
    /\ (Called("aiParse") \/ Called("generateContent")) =>
          /\ calls[1] = "fastParse"
          /\ quickResult = NO_MATCH
          /\ fastParse(text) = NO_MATCH
    /\ (pc # "parseMessage" /\ quickResult.matched) =>
          /\ pc = "returned"
          /\ calls = <<"fastParse">>
          /\ outcome.kind = "returned"
          /\ outcome.lines = quickResult.lines

FastPathFirstWitness ==
    /\ pc = "returned"
    /\ quickResult.matched
    /\ Len(outcome.lines) = 2
    /\ ~Called("generateContent")

\* A token that is a decimal integer literal: an optional sign, then digits only.
IsIntegerToken(tok) ==
    LET body == IF tok # <<>> /\ Head(tok) \in {"+", "-"} THEN Tail(tok) ELSE tok
    IN  /\ body # <<>>
        /\ \A i \in 1..Len(body) : IsDigit(body[i])

IntegerTokenValue(tok) ==
    IF Head(tok) = "-" THEN 0 - DecimalValue(Tail(tok))
    ELSE IF Head(tok) = "+" THEN DecimalValue(Tail(tok))
    ELSE DecimalValue(tok)

\* company (product count)+ : an odd number of tokens, three at least, every
\* token in a count position an integer literal.
WellFormed(toks) ==
    /\ Len(toks) >= 3
    /\ Len(toks) % 2 = 1
    /\ \A i \in 1..((Len(toks) - 1) \div 2) : IsIntegerToken(toks[2 * i + 1])

\* C7: for a message written as company (product count)+, fastParse returns one
\* order line per pair, in order: the company is the first token, the count the
\* pair's integer, the product normalizeProduct of the pair's product token.
FastParseWellFormed ==
    (pc # "parseMessage" /\ WellFormed(tokens)) =>
        /\ quickResult.matched
        /\ Len(quickResult.lines) = (Len(tokens) - 1) \div 2
        /\ \A i \in 1..Len(quickResult.lines) :
             /\ quickResult.lines[i].company = tokens[1]
             /\ quickResult.lines[i].count = IntegerTokenValue(tokens[2 * i + 1])
             /\ quickResult.lines[i].product = normalizeProduct(tokens[2 * i])

FastParseWellFormedWitness ==
    /\ pc = "returned"
    /\ WellFormed(tokens)
    /\ Len(tokens) = 5
    /\ tokens[2] = geunGeo
    /\ tokens[3] # tokens[5]
    /\ text # MessageText(tokens, [sep |-> <<" ">>, lead |-> <<>>, trail |-> <<>>])
    /\ quickResult.lines[1].product = keunGeo

\* C8 as stated: with fewer than 3 tokens, an odd remainder after the company, or
\* a count-position token that is no integer, fastParse returns null.
FastParseAllOrNothing ==
    (pc # "parseMessage" /\ ~WellFormed(tokens)) => quickResult = NO_MATCH

\* C9: normalizeProduct is idempotent; a canonical value is a fixed point, and a
\* token no entry recognizes comes back unchanged.
Unrecognized(tok) ==
    /\ Trim(tok) \notin AllVariants
    /\ \A i \in 1..Len(mapping) : ~Includes(Trim(tok), mapping[i].key)

NormalizeIdempotent ==
    pc = "returned" =>
        /\ outcome.twice = outcome.once
        /\ text \in {keunGeo, nokSaek, paRang} => outcome.once = text
        /\ Unrecognized(text) => outcome.once = text

NormalizeIdempotentWitness ==
    /\ pc = "returned"
    /\ outcome.once # text
    /\ outcome.once = nokSaek
    /\ outcome.twice = nokSaek

Undecodable(resp) == resp.kind \in {"rejected", "notJson", "notArray"}

\* C10 as stated: aiParse never propagates a failure; with the credential
\* missing or the response undecodable it returns an empty sequence.
AiParseNeverThrows ==
    (Called("aiParse") /\ pc \in {"returned", "thrown"}) =>
        /\ outcome.kind = "returned"
        /\ (credential = "missing" \/ Undecodable(outcome.response)) =>
              outcome.lines = <<>>

\* C10, amended: aiParse returns an empty sequence when the service call fails
\* or its response cannot be decoded as a JSON array; with the credential
\* missing it raises an error to its caller, before the service is called.
AiParseFailures ==
    /\ credential = "missing" =>
          /\ pc = "thrown"
          /\ outcome.kind = "thrown"
          /\ ~Called("generateContent")
    /\ (Called("generateContent") /\ Undecodable(outcome.response)) =>
          /\ pc = "returned"
          /\ outcome.kind = "returned"
          /\ outcome.lines = <<>>
    /\ pc = "thrown" => credential = "missing"

AiParseFailuresWitness ==
    /\ pc = "returned"
    /\ credential = "present"
    /\ outcome.response.kind = "notJson"
    /\ outcome.lines = <<>>

-----------------------------------------------------------------------------
(* Properties of the deduplicator *)

\* The latest shouldSkipEvent call carried an identity / came too late.
SkipHadIdentity == lastSkip.called /\ lastSkip.event_id # NoId

SkipWasLate ==
    /\ lastSkip.event_time # NoTime
    /\ lastSkip.currentTime - lastSkip.event_time > STALE_AFTER

\* C1: for an identity that is not stale, the call that finds it absent returns
\* false and records it, and every call that finds it present returns true; the
\* check and the record are one step of a listener, so under every interleaving
\* of the listener runs at most one run per identity passes the gate.
DedupOncePerIdentity ==
    /\ SkipHadIdentity =>
          /\ Has(lastSkip.before, lastSkip.event_id) =>
                lastSkip.skip /\ lastSkip.after = lastSkip.before
          /\ (~Has(lastSkip.before, lastSkip.event_id) /\ ~SkipWasLate) =>
                ~lastSkip.skip /\ Has(lastSkip.after, lastSkip.event_id)
    /\ \A id \in EventIds \ {NoId} :
          /\ passes.count[id] <= 1
          /\ passes.count[id] = 1 => Has(processedEvents, id)

DedupOncePerIdentityWitness ==
    /\ SkipHadIdentity
    /\ lastSkip.skip
    /\ ~SkipWasLate
    /\ Has(lastSkip.before, lastSkip.event_id)
    /\ passes.delivered[lastSkip.event_id] = 2
    /\ passes.count[lastSkip.event_id] = 1
    /\ \A t \in BagToSet(tasks) :
         /\ t.listener = "message"
         /\ t.pc = "generateContent"
         /\ CopiesIn(t, tasks) = 1
    /\ tasks # EmptyBag

\* C2 as stated: the set never holds more than CACHE_SIZE identities.
CacheWithinCapacity == Len(processedEvents) <= CACHE_SIZE

\* C3: when shouldSkipEvent records an identity into a set that holds CACHE_SIZE
\* identities, the one evicted is the one inserted earliest among those held, and
\* the others keep their order; a call that skips leaves the order as it was.
EvictsOldest ==
    lastSkip.called =>
        /\ (~lastSkip.skip /\ lastSkip.event_id # NoId
              /\ Len(lastSkip.before) = CACHE_SIZE) =>
                lastSkip.after = Tail(lastSkip.before) \o <<lastSkip.event_id>>
        /\ lastSkip.skip => lastSkip.after = lastSkip.before

EvictsOldestWitness ==
    /\ lastSkip.called
    /\ ~lastSkip.skip
    /\ Len(lastSkip.before) = CACHE_SIZE
    /\ lastSkip.event_id = CACHE_SIZE + 2
    /\ lastSkip.before[1] = 3
    /\ lastSkip.before[CACHE_SIZE] = 1
    /\ ~Has(lastSkip.after, 3)
    /\ Has(lastSkip.after, 1)

\* C4: a call for an event that has an identity and was emitted more than
\* STALE_AFTER seconds before returns true, also when the identity is new.
StaleSkipped ==
    (SkipHadIdentity /\ SkipWasLate) =>
        lastSkip.skip /\ lastSkip.after = lastSkip.before

StaleSkippedWitness ==
    /\ SkipHadIdentity
    /\ SkipWasLate
    /\ lastSkip.currentTime - lastSkip.event_time = STALE_AFTER + 1
    /\ ~Has(lastSkip.before, lastSkip.event_id)
    /\ lastSkip.skip

\* C5: a call for an event with no identity returns false, whatever its
\* timestamp and however often it is delivered, and leaves the set as it was.
NoIdentityNeverSkipped ==
    (lastSkip.called /\ lastSkip.event_id = NoId) =>
        ~lastSkip.skip /\ lastSkip.after = lastSkip.before
                       /\ processedEvents = lastSkip.before

NoIdentityNeverSkippedWitness ==
    /\ lastSkip.called
    /\ lastSkip.event_id = NoId
    /\ SkipWasLate
    /\ ~lastSkip.skip
    /\ passes.delivered[NoId] = 2
    /\ passes.count[NoId] = 4

-----------------------------------------------------------------------------
(* Properties of google-sheets.js *)

\* The row carries ts in its Slack_TS column, the marker set aside.
CarriesTs(row, ts) ==
    /\ Len(row) >= 4
    /\ ~IsNumber(row[4])
    /\ Trim(SelectSeq(row[4].string, LAMBDA c : c # "'")) = ts

\* Column F of the row holds something: a number, or a string that is not
\* blank.
HasRemarks(row) ==
    /\ Len(row) >= 6
    /\ ~IsNumber(row[6]) => Trim(row[6].string) # <<>>

AllRows(st) == UNION { { st[k].rows[j] : j \in 1..Len(st[k].rows) } : k \in 1..Len(st) }

RowCount(st) ==
    LET RECURSIVE Sum(_)
        Sum(k) == IF k = 0 THEN 0 ELSE Len(st[k].rows) + Sum(k - 1)
    IN  Sum(Len(st))

Requested(log, request) == \E i \in 1..Len(log) : log[i] = request

Requests(log, request) == Cardinality({ i \in 1..Len(log) : log[i] = request })

\* The call done[n] is deleteData(d.ts) right after appendData returned from
\* appending lines that all carry d.ts.
AppendThenDelete(n) ==
    /\ n >= 2
    /\ done[n - 1].op = "appendData" /\ done[n - 1].status = "returned"
    /\ done[n].op = "deleteData" /\ done[n].status = "returned"
    /\ \A i \in 1..Len(done[n - 1].dataList) : done[n - 1].dataList[i].ts = done[n].ts

\* C11: appendData of a line, then deleteData of the line's timestamp, leaves no
\* row carrying that timestamp in any sheet, the first sheet and the company's
\* among them, provided no row carrying it has remarks.
AppendDeleteRoundTrip ==
    \A n \in 1..Len(done) :
        ( /\ AppendThenDelete(n)
          /\ \A row \in AllRows(done[n].before) :
                CarriesTs(row, done[n].ts) => ~HasRemarks(row) )
        => \A row \in AllRows(done[n].after) : ~CarriesTs(row, done[n].ts)

AppendDeleteRoundTripWitness ==
    /\ Len(done) = 2
    /\ AppendThenDelete(2)
    /\ Len(done[1].before) = 1
    /\ Len(done[2].after) = 2
    /\ done[1].wrote = [master |-> 2, company |-> 2]
    /\ \E row \in AllRows(done[1].before) : CarriesTs(row, done[2].ts)
    /\ \A row \in AllRows(done[1].before) :
          CarriesTs(row, done[2].ts) => ~HasRemarks(row)
    /\ Requests(done[2].log, "deleteDimension") = 5
    /\ RowCount(done[2].after) = 2

\* The rows of a sheet that the predicate keeps, in order.
Kept(rows, Keep(_)) == SelectSeq(rows, Keep)

\* C12 as stated: deleteData leaves every row that carries ts and has remarks in
\* place and unchanged, in every sheet, and deletes the rows that carry ts and
\* have none.
ProtectedRowSurvives ==
    \A n \in 1..Len(done) :
        (done[n].op = "deleteData" /\ done[n].status = "returned") =>
            \A k \in 1..Len(done[n].before) :
                LET Guarded(row) == CarriesTs(row, done[n].ts) /\ HasRemarks(row)
                    Bare(row)    == CarriesTs(row, done[n].ts) /\ ~HasRemarks(row)
                IN  /\ Kept(done[n].after[k].rows, Guarded)
                         = Kept(done[n].before[k].rows, Guarded)
                    /\ Kept(done[n].after[k].rows, Bare) = <<>>

IsAppendRequest(request) ==
    request \in {"append:get", "append.master", "ensure.get", "ensure.addSheet",
                 "ensure.header", "append.company"}

\* C16: updateData is deleteData, then appendData: once a request of appendData
\* is made no request of deleteData follows, by then every sheet has been read,
\* and when a request of deleteData is rejected the call ends with no request of
\* appendData made and no row of the new lines in the store.
UpdateDeletesThenAppends ==
    \A n \in 1..Len(done) :
        done[n].op = "updateData" =>
            LET log      == done[n].log
                appended == \E i \in 1..Len(log) : IsAppendRequest(log[i])
            IN  /\ \A i, j \in 1..Len(log) :
                      (i < j /\ IsAppendRequest(log[i])) => IsAppendRequest(log[j])
                /\ appended =>
                      /\ Requests(log, "values.get") = Len(done[n].before)
                      /\ log[1] = "get"
                      /\ \A row \in AllRows(done[n].after) :
                            (CarriesTs(row, done[n].ts) /\ row[5] # Str(Now(n)))
                                => RowProtected(row)
                /\ (done[n].status = "threw" /\ ~appended) =>
                      /\ done[n].rejected = 1
                      /\ done[n].wrote = [master |-> 0, company |-> 0]
                      /\ \A row \in AllRows(done[n].after) : row[5] # Str(Now(n))
                      /\ RowCount(done[n].after) <= RowCount(done[n].before)

UpdateDeletesThenAppendsWitness ==
    /\ Len(done) = 1
    /\ done[1].op = "updateData"
    /\ done[1].status = "returned"
    /\ Len(done[1].dataList) = 2
    /\ Requests(done[1].log, "deleteDimension") = 2
    /\ Requested(done[1].log, "ensure.addSheet")
    /\ done[1].wrote = [master |-> 1, company |-> 2]

\* The call done[n] repeats the call before it, and both returned.
SameCallTwice(n) ==
    /\ n >= 2
    /\ done[n].op = done[n - 1].op
    /\ done[n].ts = done[n - 1].ts
    /\ done[n].dataList = done[n - 1].dataList
    /\ done[n].status = "returned"
    /\ done[n - 1].status = "returned"

\* A row with its writtenAt cell set aside.
SansWrittenAt(row) == IF Len(row) >= 5 THEN [row EXCEPT ![5] = Str(<<>>)] ELSE row

\* The rows of a sheet as a bag, writtenAt set aside.
RowBag(rows) ==
    LET bare == [j \in 1..Len(rows) |-> SansWrittenAt(rows[j])]
    IN  [row \in { bare[j] : j \in 1..Len(rows) } |->
            Cardinality({ j \in 1..Len(rows) : bare[j] = row })]

\* Two spreadsheets hold the same rows in the same sheets.
SameRows(st1, st2) ==
    /\ Len(st1) = Len(st2)
    /\ \A k \in 1..Len(st1) :
          /\ st1[k].title = st2[k].title
          /\ RowBag(st1[k].rows) = RowBag(st2[k].rows)

\* C17 as stated: appendData, deleteData or updateData called twice in a row
\* with the same arguments leaves the rows that calling it once leaves.
SyncIdempotent ==
    \A n \in 1..Len(done) :
        SameCallTwice(n) => SameRows(done[n].after, done[n - 1].after)

\* C17, amended: with every request fulfilled, deleteData is idempotent, and so
\* is updateData when every line carries ts; appendData is not: called twice it
\* appends the rows of its lines twice.
DeleteUpdateIdempotent ==
    \A n \in 1..Len(done) :
        (SameCallTwice(n) /\ done[n].rejected = 0 /\ done[n - 1].rejected = 0) =>
            /\ done[n].op = "deleteData" => SameRows(done[n].after, done[n - 1].after)
            /\ ( /\ done[n].op = "updateData"
                 /\ \A i \in 1..Len(done[n].dataList) :
                       done[n].dataList[i].ts = done[n].ts )
               => SameRows(done[n].after, done[n - 1].after)
            /\ done[n].op = "appendData" =>
                  RowCount(done[n].after)
                      = RowCount(done[n - 1].after) + 2 * Len(done[n].dataList)

DeleteUpdateIdempotentWitness ==
    /\ Len(done) = 2
    /\ SameCallTwice(2)
    /\ done[2].rejected = 0 /\ done[1].rejected = 0
    /\ done[2].op = "updateData"
    /\ Len(done[2].dataList) = 2
    /\ Requests(done[1].log, "deleteDimension") = 2
    /\ Requests(done[2].log, "deleteDimension") = 4
    /\ Requested(done[1].log, "ensure.addSheet")
    /\ ~Requested(done[2].log, "ensure.addSheet")
    /\ done[2].after # done[1].after

\* C20 as stated: deleteData deletes a row only when its Slack_TS column equals
\* ts; a row with another timestamp stays, even if another of its cells equals
\* ts.
DeletesOnlyTsRows ==
    \A n \in 1..Len(done) :
        done[n].op = "deleteData" =>
            \A k \in 1..Len(done[n].before) :
                LET Other(row) == ~CarriesTs(row, done[n].ts)
                IN  Kept(done[n].after[k].rows, Other) = Kept(done[n].before[k].rows, Other)

-----------------------------------------------------------------------------
(* Properties of the order lines *)

\* C18 as stated: every order line fastParse returns has a count that is an
\* integer greater than 0.
FastParseCountPositive ==
    (pc # "parseMessage" /\ quickResult.matched) =>
        \A i \in 1..Len(quickResult.lines) : quickResult.lines[i].count > 0

-----------------------------------------------------------------------------
(* Properties of the approval workflow *)

\* The number of rows of the table `title` written at `now`: the rows one call
\* of appendData appended to it.
Stamped(st, title, now) ==
    IF ~SheetExists(st, title) THEN 0
    ELSE LET rows == st[SheetIndex(st, title)].rows
         IN  Cardinality({ j \in 1..Len(rows) :
                             Len(rows[j]) >= 5 /\ rows[j][5] = Str(now) })

\* done[n] is the appendData call of an approve click, and it returned.
Approved(n) == done[n].by # NoId /\ done[n].status = "returned"

OneCompany(dataList) ==
    \A i \in 1..Len(dataList) : dataList[i].company = dataList[1].company

\* C13: an approval of n lines of one company appends exactly n rows to the
\* table of the company and at most n rows to the first (master) table, and a
\* rejected write to the master table stops neither the company write of the
\* line nor the lines after it.
ApprovedBatchRows ==
    \A n \in 1..Len(done) :
        (Approved(n) /\ OneCompany(done[n].dataList)) =>
            LET d == done[n]
                lines == Len(d.dataList)
            IN  /\ Stamped(d.after, d.dataList[1].company, Now(n)) = lines
                /\ Stamped(d.after, d.before[1].title, Now(n)) <= lines
                /\ Requests(d.log, "append.company") = lines

\* C14: a cancel click writes nothing to the store: no step of a cancel_order
\* listener changes a table, and the step that ends it leaves the prompt on
\* the cancellation display.
CancelWritesNothing ==
    [][\A t \in BagToSet(tasks) :
          t.listener = "cancel_order" =>
              /\ store' = store
              /\ t.pc = "chat.update" =>
                    \E p \in prompts' : SamePrompt(p, t.body) /\ p.display = "cancelled"]_vars

CancelWritesNothingWitness ==
    /\ clicks > 0
    /\ tasks = EmptyBag
    /\ \E p \in prompts : p.display = "cancelled"

\* The lines handed to appendData are the lines of `parsedData`, in order, each
\* with `ts` as its ts.
SameBatch(dataList, parsedData, ts) ==
    /\ Len(dataList) = Len(parsedData)
    /\ \A i \in 1..Len(dataList) :
          /\ dataList[i].company = parsedData[i].company
          /\ dataList[i].product = parsedData[i].product
          /\ dataList[i].count = parsedData[i].count
          /\ dataList[i].ts = ts

\* C15: the batch an approve click hands to appendData is the batch the parser
\* produced when the message arrived, in the same order, every line carrying
\* the ts of that message; and the approve_order listener goes from the click
\* to the append without a step of the parser.
ApprovedBatchIsParsedBatch ==
    /\ \A n \in 1..Len(done) :
          done[n].by # NoId =>
              \E p \in prompts : SameBatch(done[n].dataList, p.parsedData, p.thread_ts)
    /\ \A t \in BagToSet(tasks) :
          t.listener = "approve_order" =>
              t.pc \in {"ack", "appendData", "chat.update", "postMessage"}

ApprovedBatchIsParsedBatchWitness ==
    \E n \in 1..Len(done) :
        /\ done[n].by # NoId
        /\ Len(done[n].dataList) = 2
        /\ done[n].wrote.company = 2

\* The requests of lines 139-151: ensureSheetExists and the company append.
CompanyRequests == {"ensure.get", "ensure.addSheet", "ensure.header", "append.company"}

\* done[n] is the appendData call of an approve click in which a request of the
\* company write was rejected.
CompanyWriteRejected(n) ==
    /\ done[n].by # NoId
    /\ \E i \in 1..Len(done[n].rejectedAt) : done[n].rejectedAt[i] \in CompanyRequests

\* The number of rows of the store written at `now`.
StampedAll(st, now) ==
    Cardinality({ <<k, j>> \in (1..Len(st)) \X (1..RowCount(st)) :
                    /\ j <= Len(st[k].rows)
                    /\ Len(st[k].rows[j]) >= 5
                    /\ st[k].rows[j][5] = Str(now) })

\* C19: when a request of the company write is rejected during an approval,
\* appendData throws, that approval does not give the prompt the success
\* display (the prompt shows it only after another approval that succeeded),
\* the failure is posted once the listener has finished, and the rows the call
\* had written by then stay in the store.
CompanyWriteFailurePropagates ==
    \A n \in 1..Len(done) :
        CompanyWriteRejected(n) =>
            LET d == done[n]
            IN  /\ d.status = "threw"
                /\ d.outcome # "success"
                /\ \A p \in prompts :
                      p.thread_ts = d.dataList[1].ts =>
                          /\ p.display = "success" =>
                                \E k \in 1..Len(done) :
                                    /\ k # n
                                    /\ done[k].dataList[1].ts = p.thread_ts
                                    /\ done[k].outcome = "success"
                          /\ (\A t \in BagToSet(tasks) :
                                 t.listener = "approve_order" => t.body.trigger_id # d.by)
                                => (p.failed /\ d.outcome = "error")
                /\ StampedAll(store, Now(n)) = d.wrote.master + d.wrote.company

CompanyWriteFailurePropagatesWitness ==
    \E n \in 1..Len(done) :
        /\ CompanyWriteRejected(n)
        /\ done[n].rejectedAt = <<"append.company">>
        /\ done[n].wrote = [master |-> 2, company |-> 1]
        /\ done[n].outcome = "error"
        /\ StampedAll(store, Now(n)) = 3

-----------------------------------------------------------------------------
(* Properties of the scan of deleteData *)

\* `rows` without the row of index i (0-based).
Without(rows, i) == SubSeq(rows, 1, i) \o SubSeq(rows, i + 2, Len(rows))

\* C21: in one scan of deleteData over a sheet nothing else writes to, every
\* deleteDimension request removes the row that matched when the sheet was
\* read (the store still holds that row at that index), a matching row that
\* was not protected, and the next request of the scan is for a lower index.
DeletesHighToLow ==
    [][(call.status = "running" /\ call.pc = "deleteDimension" /\ store' # store) =>
          LET k == call.sheet
              i == call.i
          IN  /\ i + 1 <= Len(call.rows)
              /\ i + 1 <= Len(store[k].rows)
              /\ store[k].rows[i + 1] = call.rows[i + 1]
              /\ RowMatches(call.rows[i + 1], TargetTs(call.ts))
              /\ ~RowProtected(call.rows[i + 1])
              /\ store' = [store EXCEPT ![k].rows = Without(@, i)]
              /\ (call'.pc = "deleteDimension" /\ call'.sheet = k) => call'.i < i]_vars

\* A scan made two deletions in a sheet and left a protected row of the
\* message between them.
DeletesHighToLowWitness ==
    \E n \in 1..Len(done) :
        /\ done[n].op = "deleteData" /\ done[n].status = "returned"
        /\ Len(done[n].before) = 1
        /\ Requests(done[n].log, "deleteDimension") = 2
        /\ \E j \in 1..Len(done[n].after[1].rows) :
              /\ CarriesTs(done[n].after[1].rows[j], done[n].ts)
              /\ RowProtected(done[n].after[1].rows[j])

-----------------------------------------------------------------------------
(* Properties of the dedup step of approve_order *)

\* C22: the dedup step of approve_order treats a click as shouldSkipEvent
\* treats an event: a click that has no trigger_id is never skipped, whatever
\* clicks were handled before it.
ClickWithoutIdNeverSkipped ==
    (lastAction.called /\ lastAction.trigger_id = NoId) => ~lastAction.skip

-----------------------------------------------------------------------------
(* Properties of the decisions on one prompt *)

\* The appendData calls of approve clicks on the prompt p that appended a row.
WritingApprovals(p) ==
    { n \in 1..Len(done) : /\ done[n].by # NoId
                            /\ done[n].dataList[1].ts = p.thread_ts
                            /\ done[n].wrote.master + done[n].wrote.company > 0 }

\* The number of rows of the store that carry ts.
RowsCarrying(st, ts) ==
    Cardinality({ <<k, j>> \in (1..Len(st)) \X (1..RowCount(st)) :
                    j <= Len(st[k].rows) /\ CarriesTs(st[k].rows[j], ts) })

\* C23: the decision on a prompt is final: whatever clicks are delivered, at
\* most one approve click appends rows of the prompt's batch, and once the
\* prompt shows the cancellation no row of the batch is appended.
DecisionIsFinal ==
    /\ [](\A p \in prompts : Cardinality(WritingApprovals(p)) <= 1)
    /\ [][\A p \in prompts :
             p.display = "cancelled" =>
                 RowsCarrying(store', p.thread_ts) = RowsCarrying(store, p.thread_ts)]_vars

-----------------------------------------------------------------------------
(* Properties of calls handled at once *)

\* The task t is the one that took the step.
Stepped(t) == CopiesIn(t, tasks') < CopiesIn(t, tasks)

\* C24: with edits and deletions handled at once, deleteData(ts) removes only
\* rows that carry ts: the row a deleteDimension request removes from the
\* store carries the ts of the call that made the request.
RaceDeletesOnlyTsRows ==
    [][\A t \in BagToSet(tasks) :
          (t.call.pc = "deleteDimension" /\ Stepped(t) /\ store' # store) =>
              LET rows == store[t.call.sheet].rows
              IN  /\ t.call.i + 1 <= Len(rows)
                  /\ CarriesTs(rows[t.call.i + 1], t.call.ts)]_vars

-----------------------------------------------------------------------------
(* Properties of the two listeners of one message event *)

\* The new messages of a person, with an identity.
NewMessages ==
    { e \in Events : e.subtype = "none" /\ ~e.bot_id /\ e.event_id # NoId }

\* C25: a new message of a person that was delivered once, that a listener
\* let through the gate (it was fresh and recent) and whose listeners have
\* both finished, was handed to parseMessage exactly once, whichever listener
\* ran the gate first.
NewMessageParsedOnce ==
    \A e \in NewMessages :
        (/\ passes.delivered[e.event_id] = 1
         /\ passes.count[e.event_id] >= 1
         /\ \A t \in BagToSet(tasks) : t.body.event_id # e.event_id)
            => passes.parsed[e.event_id] = 1

-----------------------------------------------------------------------------
(* Properties of updateData on the rows of an edited message *)

\* done[n] is a call of updateData that returned.
Updated(n) == done[n].op = "updateData" /\ done[n].status = "returned"

\* The row is one the call done[n] wrote for a line of its dataList.
GeneratedBy(row, n) ==
    \E i \in 1..Len(done[n].dataList) : row = RowOf(done[n].dataList[i], Now(n))

\* Every line of done[n] has its row in the sheet of its company.
LinesWritten(n) ==
    \A i \in 1..Len(done[n].dataList) :
        LET line == done[n].dataList[i]
            k == SheetIndex(done[n].after, line.company)
        IN  /\ k # 0
            /\ \E j \in 1..Len(done[n].after[k].rows) :
                  done[n].after[k].rows[j] = RowOf(line, Now(n))

====
